---- MODULE Spec2Model ----
(***************************************************************************)
(* A model of the OAuth client of tijs/oauth-client-deno (client.ts):      *)
(* session restore and token refresh with their per-key locks, and the     *)
(* authorize / callback flow with its PKCE record.                         *)
(*                                                                         *)
(* JavaScript runs one task at a time and switches only at an await, so    *)
(* every action below is the code between two awaits of one task.          *)
(***************************************************************************)
EXTENDS Integers, Sequences, FiniteSets, TLC

VARIABLES
  now,           \* Date.now(), in milliseconds
  storage,       \* OAuthStorage, keys "session:<k>": k -> << >> or <<SessionData>>
  sess,          \* the Session objects of this process: id -> SessionData
  srvRT,         \* token endpoint: the refresh token it accepts, per DID
  issued,        \* token endpoint: tokens issued so far
  ops,           \* the restore / refresh tasks (async IIFEs) and their promises
  restoreLocks,  \* OAuthClient.restoreLocks: sessionId -> task or 0
  refreshLocks,  \* OAuthClient.refreshLocks: did -> task or 0
  cfgLock,       \* config.requestLock is set (a custom lock function)
  mutex,         \* the custom lock: the task holding the key refresh:<did>, or 0
  calls,         \* the restore()/refresh() calls made and the promise each got
  iso,           \* a refresher in another isolate: << >> or <<sid, data>> to persist
  pkce,          \* OAuthStorage, keys "pkce:<state>": state -> << >> or <<item>>
  cbs,           \* the callback() tasks, in call order
  issuedStates,  \* the states authorize() has generated so far
  cbTicks,       \* clock steps taken during the authorization flow
  req,           \* the DPoP request in progress: fetchWithDPoPRetry or makeRequest
  observed,      \* history: origin -> the DPoP-Nonce of the last response that had one
  pure,          \* a call of a validation function: its arguments and its outcome
  sn,            \* a Session object on its own: its data and what was read from it
  auto,          \* the refresh callback attached to the application's Session
  auths,         \* the authorize() tasks, in call order
  mem,           \* a MemoryStorage on its own: its Map and what was read from it
  rsv            \* a HandleResolver.resolve(handle) call in progress

\* the state of restore / refresh, and the state of authorize / callback
clientVars == <<storage, sess, srvRT, issued, ops, restoreLocks, refreshLocks,
                cfgLock, mutex, calls, iso>>
cbVars == <<pkce, cbs, issuedStates, cbTicks>>

httpVars == <<req, observed, pure, sn>>

\* the attached refresh callback, the authorize() tasks, and the objects
\* examined on their own
auxVars == <<auto, auths, mem, rsv>>

vars == <<now, clientVars, cbVars, httpVars, auxVars>>

----------------------------------------------------------------------------
(* Bounds of the model *)

MaxCalls == 2
MaxTicks == 1
MaxTokens == 3
MaxAutoRefreshes == 2
MaxAuthorizes == 2
MaxMemTicks == 3

(* Program constants and the fixed universe of the model *)

RefreshBufferMs == 300000
TickMs == RefreshBufferMs
ExpiresInChoices == {900}

SessionIds == {"did:a", "user-1"}
Dids == {"did:a"}
SessKeys == SessionIds \cup Dids

None == << >>
Some(x) == <<x>>

NoErr == [cls |-> "", code |-> "", replayed |-> FALSE]
Err(cls, code, replayed) == [cls |-> cls, code |-> code, replayed |-> replayed]

TokenExchangeClasses ==
  {"TokenExchangeError", "RefreshTokenExpiredError", "RefreshTokenRevokedError",
   "TokenValidationError"}

----------------------------------------------------------------------------
(* Session *)

IsExpiredStrict(d, t) == t + RefreshBufferMs > d.exp

\* get isExpired at time t
IsExpired(d, t) == t + RefreshBufferMs >= d.exp

\* get timeUntilExpiry at time t: Math.max(0, tokenExpiresAt - Date.now())
TimeUntilExpiry(d, t) == IF d.exp - t > 0 THEN d.exp - t ELSE 0

UpdateTokensKeepsAccess(d, tok, t) ==
  [d EXCEPT !.rt = IF tok.rt # 0 THEN tok.rt ELSE @,
            !.exp = t + tok.expiresIn * 1000]

UpdateTokens(d, tok, t) ==
  [d EXCEPT !.at = tok.at,
            !.rt = IF tok.rt # 0 THEN tok.rt ELSE @,
            !.exp = t + tok.expiresIn * 1000]

SessionData0(exp) == [did |-> "did:a", at |-> 1, rt |-> 1, exp |-> exp, key |-> 1]

----------------------------------------------------------------------------
(* Tasks.  A task is one run of the async body of restore() or refresh();   *)
(* its promise is the task itself: out is "pending", "ok" (res is the       *)
(* Session it resolved with) or "err" (err is the error it rejected with).  *)

NewOp(kind, key, pc, obj) ==
  [kind |-> kind, key |-> key, pc |-> pc, obj |-> obj, wait |-> 0,
   out |-> "pending", res |-> 0, err |-> NoErr, buf |-> None, sentRT |-> 0,
   loads |-> 0, reqs |-> 0, expired |-> FALSE, sid |-> "", fresh |-> FALSE,
   revoked |-> FALSE, emitted |-> FALSE, cause |-> "", events |-> 0, gone |-> FALSE,
   found |-> FALSE, writes |-> 0, tok |-> 0]

Resolve(op, o) == [op EXCEPT !.pc = "done", !.out = "ok", !.res = o]
Reject(op, e) == [op EXCEPT !.pc = "done", !.out = "err", !.err = e]

\* performRefresh fails with e: revokeTokenBestEffort is started when RevokesOn(e)
\* (defined below), and the classified error is thrown
Revoking(op, yes) == [op EXCEPT !.revoked = yes]

NewCall(api, key, arg, promise, inflight) ==
  [api |-> api, key |-> key, arg |-> arg, promise |-> promise, inflight |-> inflight]

----------------------------------------------------------------------------
(* OAuthClient.refresh and performRefresh *)

isTokenReplayedError(e) ==
  /\ e.cls \in TokenExchangeClasses
  /\ e.code = "invalid_grant"
  /\ e.replayed

isNetworkError(e) == e.cls = "NetworkError"

\* the error performRefresh rejects with
ClassifyRefreshError(e) ==
  IF e.cls \in TokenExchangeClasses
  THEN IF e.code = "invalid_grant"
       THEN Err("RefreshTokenExpiredError", "invalid_grant", FALSE)
       ELSE e
  ELSE IF isNetworkError(e)
       THEN Err("NetworkError", "", FALSE)
       ELSE Err("TokenExchangeError", "", FALSE)

\* revocation is attempted on failures that are neither a replay nor a network error
RevokesOn(e) == ~isTokenReplayedError(e) /\ ~isNetworkError(e)

\* the storage key performRefresh reloads after a replay
ReplayReloadKey(did) == did

\* history: the task of the given kind pending for the key, 0 if none
InFlight(kind, key) ==
  LET P == {j \in 1..Len(ops) :
              ops[j].kind = kind /\ ops[j].key = key /\ ops[j].out = "pending"}
  IN IF P = {} THEN 0 ELSE CHOOSE j \in P : \A k \in P : j <= k

RefreshJoinsNever(did) == FALSE

\* refresh() returns the promise of the refresh in flight for the DID
RefreshJoins(did) == ~cfgLock /\ refreshLocks[did] # 0

RefreshEntryPcUnlocked == "discover"

\* where the task of a new refresh starts: inside requestLock(`refresh:<did>`, fn)
\* when a custom lock is configured, else in performRefresh at once
RefreshEntryPc == IF cfgLock THEN "acquire" ELSE "discover"

\* refresh(session) is called for Session o of DID did, the tasks so far being
\* base: the promise it returns, and the tasks and locks after the call
RefreshPromise(base, did) ==
  IF RefreshJoins(did) THEN refreshLocks[did] ELSE Len(base) + 1

RefreshOps(base, did, o) ==
  IF RefreshJoins(did) THEN base
  ELSE Append(base, NewOp("refresh", did, RefreshEntryPc, o))

RefreshLocksAfter(base, did) ==
  IF RefreshJoins(did) \/ cfgLock THEN refreshLocks
  ELSE [refreshLocks EXCEPT ![did] = Len(base) + 1]

\* a caller calls refresh(s) on a Session object it holds
refresh(o) ==
  /\ Len(calls) < MaxCalls
  /\ UNCHANGED <<cbVars, httpVars, auxVars>>
  /\ LET did == sess[o].did IN
       /\ ops' = RefreshOps(ops, did, o)
       /\ refreshLocks' = RefreshLocksAfter(ops, did)
       /\ calls' = Append(calls, NewCall("refresh", did, o, RefreshPromise(ops, did),
                                         InFlight("refresh", did)))
  /\ UNCHANGED <<now, storage, sess, srvRT, issued, restoreLocks, cfgLock, mutex, iso>>

\* a custom lock that guarantees mutual exclusion per key: fn (performRefresh)
\* starts once no other task holds the key
LockAcquired(j) ==
  /\ ops[j].kind = "refresh" /\ ops[j].pc = "acquire"
  /\ UNCHANGED <<cbVars, httpVars, auxVars>>
  /\ mutex[ops[j].key] = 0
  /\ mutex' = [mutex EXCEPT ![ops[j].key] = j]
  /\ ops' = [ops EXCEPT ![j].pc = "discover"]
  /\ UNCHANGED <<now, storage, sess, srvRT, issued, restoreLocks, refreshLocks,
                 cfgLock, calls, iso>>

RefreshSettledKeepsLock(j, op) ==
  /\ ops' = [ops EXCEPT ![j] = op]
  /\ UNCHANGED <<refreshLocks, mutex>>

\* the task settles: the finally block of refresh() drops the in-memory lock;
\* a custom lock is released
RefreshSettled(j, op) ==
  /\ ops' = [ops EXCEPT ![j] = op]
  /\ IF cfgLock
     THEN /\ mutex' = [mutex EXCEPT ![ops[j].key] = 0]
          /\ UNCHANGED refreshLocks
     ELSE /\ refreshLocks' = [refreshLocks EXCEPT ![ops[j].key] = 0]
          /\ UNCHANGED mutex

\* discoverOAuthEndpointsFromPDS returned or threw
RefreshDiscovered(j, ok) ==
  /\ ops[j].kind = "refresh" /\ ops[j].pc = "discover"
  /\ UNCHANGED <<cbVars, httpVars, auxVars>>
  /\ IF ok
     THEN \* refreshTokens(tokenEndpoint, session.refreshToken, ...) is called
          /\ ops' = [ops EXCEPT ![j].pc = "request",
                                ![j].sentRT = sess[ops[j].obj].rt,
                                ![j].reqs = @ + 1]
          /\ UNCHANGED <<refreshLocks, mutex>>
     ELSE LET e == Err("PDSDiscoveryError", "", FALSE) IN
          RefreshSettled(j, Reject(Revoking([ops[j] EXCEPT !.cause = "discovery"],
                                            RevokesOn(e)),
                                   ClassifyRefreshError(e)))
  /\ UNCHANGED <<now, storage, sess, srvRT, issued, restoreLocks, cfgLock, calls, iso>>

\* the token endpoint answers the refresh grant with new tokens
RefreshSucceeded(j) ==
  /\ ops[j].kind = "refresh" /\ ops[j].pc = "request"
  /\ UNCHANGED <<cbVars, httpVars, auxVars>>
  /\ ops[j].sentRT = srvRT[ops[j].key]
  /\ issued < MaxTokens
  /\ \E ei \in ExpiresInChoices :
       LET o == ops[j].obj
           t == issued + 1
           d == UpdateTokens(sess[o], [at |-> t, rt |-> t, expiresIn |-> ei], now)
       IN /\ issued' = t
          /\ srvRT' = [srvRT EXCEPT ![ops[j].key] = t]
          /\ sess' = [sess EXCEPT ![o] = d]
          /\ RefreshSettled(j, Resolve([ops[j] EXCEPT !.emitted = TRUE, !.tok = t], o))
  /\ UNCHANGED <<now, storage, restoreLocks, cfgLock, calls, iso>>

\* the token endpoint answers with new tokens, updateTokens is applied, and the
\* onSessionUpdated listener of the application throws: the call sits in the
\* try block of performRefresh, so its error is handled like a failed refresh
ListenerError == Err("Error", "", FALSE)
RefreshListenerThrew(j) ==
  /\ ops[j].kind = "refresh" /\ ops[j].pc = "request"
  /\ UNCHANGED <<cbVars, httpVars, auxVars>>
  /\ ops[j].sentRT = srvRT[ops[j].key]
  /\ issued < MaxTokens
  /\ \E ei \in ExpiresInChoices :
       LET o == ops[j].obj
           t == issued + 1
           d == UpdateTokens(sess[o], [at |-> t, rt |-> t, expiresIn |-> ei], now)
       IN /\ issued' = t
          /\ srvRT' = [srvRT EXCEPT ![ops[j].key] = t]
          /\ sess' = [sess EXCEPT ![o] = d]
          /\ RefreshSettled(j, Reject(Revoking([ops[j] EXCEPT !.emitted = TRUE, !.tok = t,
                                                              !.cause = "onSessionUpdated"],
                                               RevokesOn(ListenerError)),
                                      ClassifyRefreshError(ListenerError)))
  /\ UNCHANGED <<now, storage, restoreLocks, cfgLock, calls, iso>>

\* the ways the token request of refresh task j can fail: an OAuth error
\* response (invalid_grant, as a replay when the token sent is no longer the
\* server's, or another error code), or fetch rejecting because the endpoint
\* could not be reached
RefreshOutcomes(j) ==
  {"invalid_grant", "invalid_client", "unreachable"}
  \cup (IF ops[j].sentRT # srvRT[ops[j].key] THEN {"replayed"} ELSE {})

\* the error refreshTokens throws: the TokenExchangeError built from the error
\* response, or the rejection of fetch wrapped as
\* TokenExchangeError("Token refresh failed") without an error code
refreshTokensError(r) ==
  CASE r = "invalid_grant" -> Err("TokenExchangeError", "invalid_grant", FALSE)
    [] r = "replayed" -> Err("TokenExchangeError", "invalid_grant", TRUE)
    [] r = "invalid_client" -> Err("TokenExchangeError", "invalid_client", FALSE)
    [] r = "unreachable" -> Err("TokenExchangeError", "", FALSE)

\* the errors refreshTokens can throw
RefreshErrors(j) == {refreshTokensError(r) : r \in RefreshOutcomes(j)}

RefreshFailed(j) ==
  /\ ops[j].kind = "refresh" /\ ops[j].pc = "request"
  /\ UNCHANGED <<cbVars, httpVars, auxVars>>
  /\ \E r \in RefreshOutcomes(j) :
       LET e == refreshTokensError(r) IN
       IF isTokenReplayedError(e)
       THEN \* await this.sleep(200), then storage.get
            /\ ops' = [ops EXCEPT ![j].pc = "sleep", ![j].err = e, ![j].cause = r]
            /\ UNCHANGED <<refreshLocks, mutex>>
       ELSE RefreshSettled(j, Reject(Revoking([ops[j] EXCEPT !.cause = r], RevokesOn(e)),
                                     ClassifyRefreshError(e)))
  /\ UNCHANGED <<now, storage, sess, srvRT, issued, restoreLocks, cfgLock, calls, iso>>

\* the token endpoint accepts the refresh grant and never answers: fetch stays
\* pending; refreshTokens takes no timeout (performRefresh passes
\* this.refreshTimeout as a seventh argument, which refreshTokens does not
\* declare) and no timer is armed, so no continuation of the task is ever run
RefreshUnanswered(j) ==
  /\ ops[j].kind = "refresh" /\ ops[j].pc = "request"
  /\ UNCHANGED <<cbVars, httpVars, auxVars>>
  /\ ops' = [ops EXCEPT ![j].pc = "hung"]
  /\ UNCHANGED <<now, storage, sess, srvRT, issued, restoreLocks, refreshLocks,
                 cfgLock, mutex, calls, iso>>

\* history: a non-expired session is stored under session:<sid>
FreshUnder(sid) ==
  /\ sid \in SessionIds
  /\ storage[sid] # None
  /\ ~IsExpired(storage[sid][1], now)

\* after the sleep: the session is read back from storage
RefreshReloaded(j) ==
  /\ ops[j].kind = "refresh" /\ ops[j].pc = "sleep"
  /\ UNCHANGED <<cbVars, httpVars, auxVars>>
  /\ LET did == ops[j].key
         got == storage[ReplayReloadKey(did)]
         e == ops[j].err
     IN IF got # None /\ ~IsExpired(got[1], now)
        THEN /\ sess' = Append(sess, got[1])
             /\ RefreshSettled(j, Resolve([ops[j] EXCEPT !.loads = @ + 1,
                                                         !.fresh = FreshUnder(ops[j].sid)],
                                          Len(sess) + 1))
        ELSE /\ RefreshSettled(j, Reject([ops[j] EXCEPT !.loads = @ + 1,
                                                        !.fresh = FreshUnder(ops[j].sid),
                                                        !.revoked = RevokesOn(e)],
                                         ClassifyRefreshError(e)))
             /\ UNCHANGED sess
  /\ UNCHANGED <<now, storage, srvRT, issued, restoreLocks, cfgLock, calls, iso>>

\* the error a failing storage rejects get / set / delete with
StorageError == Err("Error", "", FALSE)

\* after the sleep: storage.get rejects.  The await sits in the catch block of
\* performRefresh, so the storage's error leaves performRefresh as it is
RefreshReloadFailed(j) ==
  /\ ops[j].kind = "refresh" /\ ops[j].pc = "sleep"
  /\ UNCHANGED <<cbVars, httpVars, auxVars>>
  /\ RefreshSettled(j, Reject([ops[j] EXCEPT !.loads = @ + 1, !.cause = "storage.get"],
                              StorageError))
  /\ UNCHANGED <<now, storage, sess, srvRT, issued, restoreLocks, cfgLock, calls, iso>>

----------------------------------------------------------------------------
(* OAuthClient.restore *)

RestoreJoinsNever(sid) == FALSE

\* restore() returns the promise of the restore in flight for the session id
RestoreJoins(sid) == restoreLocks[sid] # 0

\* a caller calls restore(sessionId): it joins the restore in flight, or a new
\* task starts (storage.get is called) and is installed as the lock
restore(sid) ==
  /\ Len(calls) < MaxCalls
  /\ UNCHANGED <<cbVars, httpVars, auxVars>>
  /\ IF RestoreJoins(sid)
     THEN /\ calls' = Append(calls, NewCall("restore", sid, 0, restoreLocks[sid],
                                            InFlight("restore", sid)))
          /\ UNCHANGED <<ops, restoreLocks>>
     ELSE /\ ops' = Append(ops, [NewOp("restore", sid, "load", 0) EXCEPT
                                   !.loads = 1, !.sid = sid])
          /\ restoreLocks' = [restoreLocks EXCEPT ![sid] = Len(ops) + 1]
          /\ calls' = Append(calls, NewCall("restore", sid, 0, Len(ops) + 1,
                                            InFlight("restore", sid)))
  /\ UNCHANGED <<now, storage, sess, srvRT, issued, refreshLocks, cfgLock, mutex, iso>>

\* the error restore rejects with when its refresh failed
ClassifyRestoreError(e) ==
  IF e.cls \in TokenExchangeClasses
  THEN IF e.code = "invalid_grant"
       THEN Err("RefreshTokenExpiredError", "invalid_grant", FALSE)
       ELSE e
  ELSE IF e.cls = "NetworkError"
       THEN e
       ELSE Err("TokenExchangeError", "", FALSE)

SessionKeyOfDid(sid) == "did:a"

\* the storage key of a session: `session:${sessionId}`
SessionKey(sid) == sid

RestoreMissingNull(op) == Resolve(op, 0)

\* storage.get answered null: restore throws SessionNotFoundError
RestoreMissing(op) == Reject(op, Err("SessionNotFoundError", "", FALSE))

\* storage.get answered: SessionNotFound, a live session, or refresh(session)
RestoreLoaded(i) ==
  /\ ops[i].kind = "restore" /\ ops[i].pc = "load"
  /\ UNCHANGED <<cbVars, httpVars, auxVars>>
  /\ LET sid == ops[i].key
         got == storage[SessionKey(sid)]
         o == Len(sess) + 1
     IN IF got = None
        THEN /\ ops' = [ops EXCEPT ![i] = RestoreMissing(@)]
             /\ restoreLocks' = [restoreLocks EXCEPT ![sid] = 0]
             /\ UNCHANGED <<sess, refreshLocks>>
        ELSE /\ sess' = Append(sess, got[1])
             /\ IF ~IsExpired(got[1], now)
                THEN /\ ops' = [ops EXCEPT ![i] = Resolve([@ EXCEPT !.found = TRUE], o)]
                     /\ restoreLocks' = [restoreLocks EXCEPT ![sid] = 0]
                     /\ UNCHANGED refreshLocks
                ELSE LET did == got[1].did
                         base == [ops EXCEPT ![i].pc = "awaitRefresh",
                                             ![i].found = TRUE,
                                             ![i].obj = o,
                                             ![i].expired = TRUE,
                                             ![i].wait = RefreshPromise(ops, did)]
                         after == RefreshOps(base, did, o)
                     IN /\ ops' = IF Len(after) > Len(base)
                                  THEN [after EXCEPT ![Len(after)].sid = sid]
                                  ELSE after
                        /\ refreshLocks' = RefreshLocksAfter(ops, did)
                        /\ UNCHANGED restoreLocks
  /\ UNCHANGED <<now, storage, srvRT, issued, cfgLock, mutex, calls, iso>>

\* the refresh promise settled: storage.set is called with the refreshed
\* session's JSON, or the error is classified and restore rejects
RestoreRefreshed(i) ==
  /\ ops[i].kind = "restore" /\ ops[i].pc = "awaitRefresh"
  /\ UNCHANGED <<cbVars, httpVars, auxVars>>
  /\ ops[ops[i].wait].out # "pending"
  /\ LET r == ops[ops[i].wait] IN
       IF r.out = "ok"
       THEN /\ ops' = [ops EXCEPT ![i].pc = "persist", ![i].res = r.res,
                                  ![i].buf = Some(sess[r.res])]
            /\ UNCHANGED restoreLocks
       ELSE /\ ops' = [ops EXCEPT ![i] = Reject(@, ClassifyRestoreError(r.err))]
            /\ restoreLocks' = [restoreLocks EXCEPT ![ops[i].key] = 0]
  /\ UNCHANGED <<now, storage, sess, srvRT, issued, refreshLocks, cfgLock, mutex,
                 calls, iso>>

\* storage.set completed: restore resolves with the refreshed session
RestorePersisted(i) ==
  /\ ops[i].kind = "restore" /\ ops[i].pc = "persist"
  /\ UNCHANGED <<cbVars, httpVars, auxVars>>
  /\ storage' = [storage EXCEPT ![SessionKey(ops[i].key)] = ops[i].buf]
  /\ ops' = [ops EXCEPT ![i] = Resolve([@ EXCEPT !.writes = @ + 1], ops[i].res)]
  /\ restoreLocks' = [restoreLocks EXCEPT ![ops[i].key] = 0]
  /\ UNCHANGED <<now, sess, srvRT, issued, refreshLocks, cfgLock, mutex, calls, iso>>

\* what the outer catch of restore throws for an error that reaches it
RestoreOuterError(e) ==
  IF e.cls \in {"SessionNotFoundError", "NetworkError"} \cup TokenExchangeClasses
  THEN e
  ELSE Err("SessionError", "", FALSE)

\* storage.get rejects: the outer catch handles the storage's error, and the
\* finally block drops the lock
RestoreLoadFailed(i) ==
  /\ ops[i].kind = "restore" /\ ops[i].pc = "load"
  /\ UNCHANGED <<cbVars, httpVars, auxVars>>
  /\ ops' = [ops EXCEPT ![i] = Reject([@ EXCEPT !.cause = "storage.get"],
                                      RestoreOuterError(StorageError))]
  /\ restoreLocks' = [restoreLocks EXCEPT ![ops[i].key] = 0]
  /\ UNCHANGED <<now, storage, sess, srvRT, issued, refreshLocks, cfgLock, mutex,
                 calls, iso>>

\* storage.set rejects and nothing is written: the await sits in the inner try
\* beside refresh(session), so the inner catch classifies the storage's error,
\* the outer catch handles what it throws, and the finally block drops the lock
RestorePersistFailed(i) ==
  /\ ops[i].kind = "restore" /\ ops[i].pc = "persist"
  /\ UNCHANGED <<cbVars, httpVars, auxVars>>
  /\ ops' = [ops EXCEPT ![i] = Reject([@ EXCEPT !.cause = "storage.set"],
                                      RestoreOuterError(ClassifyRestoreError(StorageError)))]
  /\ restoreLocks' = [restoreLocks EXCEPT ![ops[i].key] = 0]
  /\ UNCHANGED <<now, storage, sess, srvRT, issued, refreshLocks, cfgLock, mutex,
                 calls, iso>>

----------------------------------------------------------------------------
(* OAuthClient.signOut *)

\* what discoverOAuthEndpointsFromPDS does for signOut: it throws, or returns
\* endpoints without or with a revocationEndpoint
SignOutDiscoveries == {"fail", "none", "endpoint"}

\* what the revocation request does: 2xx, another status, or fetch rejects
RevocationOutcomes == {"ok", "status", "unreachable"}

\* a caller calls signOut(sessionId, session) with a Session object it holds
signOut(sid, o) ==
  /\ Len(calls) < MaxCalls
  /\ UNCHANGED <<cbVars, httpVars, auxVars>>
  /\ ops' = Append(ops, NewOp("signOut", sid, "discover", o))
  /\ calls' = Append(calls, NewCall("signOut", sid, o, Len(ops) + 1, 0))
  /\ UNCHANGED <<now, storage, sess, srvRT, issued, restoreLocks, refreshLocks,
                 cfgLock, mutex, iso>>

SignOutRethrows(op, r) ==
  IF r \in {"fail", "unreachable"}
  THEN Reject([op EXCEPT !.cause = r], Err("NetworkError", "", FALSE))
  ELSE [op EXCEPT !.pc = "delete", !.cause = r]

\* the try / catch around discovery and revocation is left: the catch block
\* only logs, so whatever happened the finally block is next
SignOutCleanup(op, r) == [op EXCEPT !.pc = "delete", !.cause = r]

\* discovery settled: the revocation request is sent when there is an endpoint
SignOutDiscovered(i, r) ==
  /\ ops[i].kind = "signOut" /\ ops[i].pc = "discover"
  /\ UNCHANGED <<cbVars, httpVars, auxVars>>
  /\ ops' = [ops EXCEPT ![i] =
               IF r = "endpoint"
               THEN [@ EXCEPT !.pc = "revoke", !.sentRT = sess[ops[i].obj].rt,
                              !.reqs = @ + 1]
               ELSE SignOutCleanup(@, r)]
  /\ UNCHANGED <<now, storage, sess, srvRT, issued, restoreLocks, refreshLocks,
                 cfgLock, mutex, calls, iso>>

\* the revocation request settled; a server that answers 2xx has revoked the
\* refresh token if it was the current one
SignOutRevoked(i, r) ==
  /\ ops[i].kind = "signOut" /\ ops[i].pc = "revoke"
  /\ UNCHANGED <<cbVars, httpVars, auxVars>>
  /\ LET did == sess[ops[i].obj].did IN
       srvRT' = IF r = "ok" /\ srvRT[did] = ops[i].sentRT
                THEN [srvRT EXCEPT ![did] = 0]
                ELSE srvRT
  /\ ops' = [ops EXCEPT ![i] = SignOutCleanup([@ EXCEPT !.revoked = (r = "ok")], r)]
  /\ UNCHANGED <<now, storage, sess, issued, restoreLocks, refreshLocks,
                 cfgLock, mutex, calls, iso>>

\* finally: storage.delete completed, onSessionDeleted(sessionId) is emitted
\* and signOut resolves
SignOutDeleted(i) ==
  /\ ops[i].kind = "signOut" /\ ops[i].pc = "delete"
  /\ UNCHANGED <<cbVars, httpVars, auxVars>>
  /\ storage' = [storage EXCEPT ![ops[i].key] = None]
  /\ ops' = [ops EXCEPT ![i] = [@ EXCEPT !.pc = "done", !.out = "ok",
                                         !.events = @ + 1,
                                         !.gone = (storage'[ops[i].key] = None)]]
  /\ UNCHANGED <<now, sess, srvRT, issued, restoreLocks, refreshLocks,
                 cfgLock, mutex, calls, iso>>

\* finally: storage.delete rejects; the event is not emitted and signOut
\* rejects with the storage's error
SignOutDeleteFailed(i) ==
  /\ ops[i].kind = "signOut" /\ ops[i].pc = "delete"
  /\ UNCHANGED <<cbVars, httpVars, auxVars>>
  /\ ops' = [ops EXCEPT ![i] = Reject([@ EXCEPT !.cause = "storage.delete"],
                                      StorageError)]
  /\ UNCHANGED <<now, storage, sess, srvRT, issued, restoreLocks, refreshLocks,
                 cfgLock, mutex, calls, iso>>

----------------------------------------------------------------------------
(* The environment: time, and a refresher in another isolate that shares   *)
(* the storage and the token endpoint                                      *)

Tick ==
  /\ now < MaxTicks * TickMs
  /\ UNCHANGED <<cbVars, httpVars, auxVars>>
  /\ now' = now + TickMs
  /\ UNCHANGED <<storage, sess, srvRT, issued, ops, restoreLocks, refreshLocks,
                 cfgLock, mutex, calls, iso>>

IsoRefreshed(sid) ==
  /\ iso = None
  /\ UNCHANGED <<cbVars, httpVars, auxVars>>
  /\ storage[sid] # None
  /\ storage[sid][1].rt = srvRT[storage[sid][1].did]
  /\ issued < MaxTokens
  /\ \E ei \in ExpiresInChoices :
       LET d == storage[sid][1]
           t == issued + 1
       IN /\ issued' = t
          /\ srvRT' = [srvRT EXCEPT ![d.did] = t]
          /\ iso' = <<sid, UpdateTokens(d, [at |-> t, rt |-> t, expiresIn |-> ei], now)>>
  /\ UNCHANGED <<now, storage, sess, ops, restoreLocks, refreshLocks, cfgLock, mutex,
                 calls>>

IsoPersisted ==
  /\ iso # None
  /\ UNCHANGED <<cbVars, httpVars, auxVars>>
  /\ storage' = [storage EXCEPT ![iso[1]] = Some(iso[2])]
  /\ iso' = None
  /\ UNCHANGED <<now, sess, srvRT, issued, ops, restoreLocks, refreshLocks, cfgLock,
                 mutex, calls>>

----------------------------------------------------------------------------
(* OAuthClient.authorize and callback, with the PKCE record they share *)

MaxCallbacks == 2
MaxCbTicks == 2

PKCE_STATE_TTL == 600

\* the instants at which the clock is read: the lifetime of a record after
\* the start, then one millisecond later
CbTickStep(t) == IF t = PKCE_STATE_TTL * 1000 THEN 1 ELSE PKCE_STATE_TTL * 1000

\* the states authorize() generates
States == {"s1"}

\* what the application passes to authorize(): a handle or an authorization
\* server URL
Handles == {"a.test"}
AuthServerUrls == {"https://as1"}

\* the accounts of the network
Accounts == {"did:a", "did:b"}

\* the redirect carries a response, an error, a code, or none of them
ParamKinds ==
  {[response |-> TRUE, error |-> FALSE, code |-> FALSE],
   [response |-> FALSE, error |-> TRUE, code |-> FALSE],
   [response |-> FALSE, error |-> FALSE, code |-> FALSE],
   [response |-> FALSE, error |-> FALSE, code |-> TRUE]}

\* the iss of the redirect: absent (""), or an issuer other than the one
\* authorize() discovered
IssChoices == {"", "https://as2"}

\* the parameters of the redirect: a parameter is present or not, except
\* state and iss whose values matter
Params ==
  {[response |-> k.response, error |-> k.error, code |-> k.code, state |-> st,
    iss |-> iss] : k \in ParamKinds, st \in States, iss \in IssChoices}

\* the network: handle -> DID, DID document -> PDS and handle
DidOf(handle) == IF handle = "a.test" THEN "did:a" ELSE "did:b"
HandleOf(did) == IF did = "did:a" THEN "a.test" ELSE "b.test"
PdsOf(did) == IF did = "did:a" THEN "https://pds1" ELSE "https://pds2"

\* discoverOAuthEndpointsFromPDS(url).issuer: the issuer of the authorization
\* server the resource at url names, or of url itself when it names none
DiscoverIssuer(url) ==
  IF url \in {"https://pds1", "https://as1"} THEN "https://as1" ELSE "https://as2"

\* errors of the authorization flow
NoCbErr == [cls |-> "", msg |-> "", expected |-> "", actual |-> "", handle |-> "",
            did |-> ""]
CbErr(cls, msg) == [NoCbErr EXCEPT !.cls = cls, !.msg = msg]
IssuerMismatchError(expected, actual) ==
  [NoCbErr EXCEPT !.cls = "IssuerMismatchError", !.expected = expected,
                  !.actual = actual]

\* MemoryStorage.set(key, value, {ttl}): the item kept; setAt records when it
\* was written
PkceItem(value, t) ==
  [value |-> value, expiresAt |-> t + PKCE_STATE_TTL * 1000, setAt |-> t]

ExpiredNever(item, t) == FALSE

\* MemoryStorage.get: the item is past its expiry
Expired(item, t) == item.expiresAt # 0 /\ t > item.expiresAt

\* MemoryStorage.get("pkce:<st>") at time t: the item, or << >> for null
StorageGet(st, t) ==
  IF pkce[st] = None \/ Expired(pkce[st][1], t) THEN None ELSE pkce[st]

\* authorize(input) up to and including storage.set; st is the state it
\* generates (crypto.randomUUID()), a fresh one on every call
authorize(input, st) ==
  /\ st \notin issuedStates
  /\ LET isAuthServerUrl == input \in AuthServerUrls
         did == IF isAuthServerUrl THEN "" ELSE DidOf(input)
         pdsUrl == IF isAuthServerUrl THEN input ELSE PdsOf(did)
         handle == IF isAuthServerUrl THEN "" ELSE input
         issuer == DiscoverIssuer(pdsUrl)
         value == [authServer |-> issuer, issuer |-> issuer, handle |-> handle,
                   did |-> did, pdsUrl |-> pdsUrl]
     IN pkce' = [pkce EXCEPT ![st] = Some(PkceItem(value, now))]
  /\ issuedStates' = issuedStates \cup {st}
  /\ UNCHANGED <<httpVars, auxVars, now, clientVars, cbs, cbTicks>>

\* a callback() task.  calledAt, stored: when it was called and the item then
\* in storage under its state; rec: the record it read; left: a record of its
\* state was still readable when it settled
NewCb(p) ==
  [params |-> p, pc |-> "start", out |-> "pending", err |-> NoCbErr,
   session |-> None, rec |-> None, stored |-> pkce[p.state], calledAt |-> now,
   dpop |-> FALSE, tokreqs |-> 0, sub |-> "", did |-> "", handle |-> "",
   pdsUrl |-> "", discovered |-> FALSE, emitted |-> FALSE, left |-> FALSE]

CbReject(c, e, left) ==
  [c EXCEPT !.pc = "done", !.out = "err", !.err = e, !.left = left]

IssMismatchNever(iss, rec) == FALSE

\* callback: the iss parameter is present and is not the stored issuer
IssMismatch(iss, rec) == iss # "" /\ iss # rec.issuer

\* callback(p) up to its first await that another task can observe: the
\* parameter checks and storage.get
callback(p) ==
  /\ Len(cbs) < MaxCallbacks
  /\ LET c == NewCb(p)
         got == StorageGet(p.state, now)
     IN IF p.response
        THEN /\ cbs' = Append(cbs, CbReject(c, CbErr("OAuthError", "JARM"), got # None))
             /\ UNCHANGED pkce
        ELSE IF p.error
        THEN /\ cbs' = Append(cbs, CbReject(c, CbErr("AuthorizationError", ""),
                                            got # None))
             /\ UNCHANGED pkce
        ELSE IF ~p.code
        THEN /\ cbs' = Append(cbs, CbReject(c, CbErr("OAuthError", "Missing code"),
                                            got # None))
             /\ UNCHANGED pkce
        ELSE /\ pkce' = [pkce EXCEPT ![p.state] = got]
             /\ cbs' = Append(cbs,
                  IF got = None
                  THEN CbReject(c, CbErr("InvalidStateError", ""), FALSE)
                  ELSE [c EXCEPT !.rec = Some(got[1].value),
                                 !.pc = IF IssMismatch(p.iss, got[1].value)
                                        THEN "issDelete" ELSE "keygen"])
  /\ UNCHANGED <<httpVars, auxVars, now, clientVars, issuedStates, cbTicks>>

PkceKept(i) == pkce

\* storage.delete("pkce:<state>") by task i
PkceDeleted(i) == [pkce EXCEPT ![cbs[i].params.state] = None]

\* the iss parameter did not match: the record is deleted, then the error thrown
CbIssDeleted(i) ==
  /\ cbs[i].pc = "issDelete"
  /\ pkce' = PkceDeleted(i)
  /\ cbs' = [cbs EXCEPT ![i] =
       CbReject(@, IssuerMismatchError(cbs[i].rec[1].issuer, cbs[i].params.iss),
                FALSE)]
  /\ UNCHANGED <<httpVars, auxVars, now, clientVars, issuedStates, cbTicks>>

\* generateDPoPKeyPair resolved; exchangeCodeForTokens sends the token request
CbKeyGenerated(i) ==
  /\ cbs[i].pc = "keygen"
  /\ cbs' = [cbs EXCEPT ![i].dpop = TRUE, ![i].tokreqs = @ + 1, ![i].pc = "exchange"]
  /\ UNCHANGED <<httpVars, auxVars, now, clientVars, pkce, issuedStates, cbTicks>>

\* what the token request can end in: it fails, its response is invalid, or a
\* valid response whose sub is some DID
ExchangeResults == {"fail", "invalid"} \cup Accounts

\* the token request of task i ended in r; validateTokenResponse; the identity
CbExchanged(i, r) ==
  /\ cbs[i].pc = "exchange"
  /\ LET c == cbs[i]
         rec == c.rec[1]
     IN cbs' = [cbs EXCEPT ![i] =
          IF r = "fail"
          THEN [c EXCEPT !.err = CbErr("TokenExchangeError", ""), !.pc = "cleanup"]
          ELSE IF r = "invalid"
          THEN [c EXCEPT !.err = CbErr("TokenValidationError", ""), !.pc = "cleanup"]
          ELSE IF rec.did = ""
          THEN [c EXCEPT !.sub = r, !.did = r, !.pc = "resolve"]
          ELSE [c EXCEPT !.sub = r, !.did = rec.did, !.handle = rec.handle,
                         !.pdsUrl = rec.pdsUrl, !.pc = "verify"]]
  /\ UNCHANGED <<httpVars, auxVars, now, clientVars, pkce, issuedStates, cbTicks>>

\* authorization-server flow: resolveDidDocument(did) resolved or threw
CbResolved(i, ok) ==
  /\ cbs[i].pc = "resolve"
  /\ cbs' = [cbs EXCEPT ![i] =
       IF ok
       THEN [@ EXCEPT !.handle = HandleOf(cbs[i].did), !.pdsUrl = PdsOf(cbs[i].did),
                      !.pc = "verify"]
       ELSE [@ EXCEPT !.err = CbErr("PDSDiscoveryError", ""), !.pc = "cleanup"]]
  /\ UNCHANGED <<httpVars, auxVars, now, clientVars, pkce, issuedStates, cbTicks>>

\* verifyIssuer: the PDS whose authorization server is looked up
VerifyPds(did, knownPdsUrl) == IF knownPdsUrl # "" THEN knownPdsUrl ELSE PdsOf(did)

\* verifyIssuer(tokenDid, authServer, issuer, pdsUrl): the discovery resolved
\* (ok) or threw, which is logged and ignored
CbVerified(i, ok) ==
  /\ cbs[i].pc = "verify"
  /\ LET c == cbs[i]
         expectedIssuer == DiscoverIssuer(VerifyPds(c.sub, c.pdsUrl))
     IN cbs' = [cbs EXCEPT ![i] =
          IF ok /\ expectedIssuer # c.rec[1].issuer
          THEN [c EXCEPT !.discovered = TRUE, !.pc = "cleanup",
                         !.err = [IssuerMismatchError(expectedIssuer, c.rec[1].issuer)
                                    EXCEPT !.handle = c.handle, !.did = c.did]]
          ELSE [c EXCEPT !.discovered = ok, !.pc = "finish"]]
  /\ UNCHANGED <<httpVars, auxVars, now, clientVars, pkce, issuedStates, cbTicks>>

\* the session is built, the record deleted, onSessionUpdated emitted
CbFinished(i) ==
  /\ cbs[i].pc = "finish"
  /\ pkce' = PkceDeleted(i)
  /\ cbs' = [cbs EXCEPT ![i].pc = "done", ![i].out = "ok", ![i].emitted = TRUE,
                        ![i].session = Some([did |-> cbs[i].did,
                                             handle |-> cbs[i].handle,
                                             pdsUrl |-> cbs[i].pdsUrl])]
  /\ UNCHANGED <<httpVars, auxVars, now, clientVars, issuedStates, cbTicks>>

\* the catch block: the record is deleted, the error rethrown
CbCleaned(i) ==
  /\ cbs[i].pc = "cleanup"
  /\ pkce' = PkceDeleted(i)
  /\ cbs' = [cbs EXCEPT ![i] = CbReject(@, cbs[i].err, FALSE)]
  /\ UNCHANGED <<httpVars, auxVars, now, clientVars, issuedStates, cbTicks>>

CbTick ==
  /\ cbTicks < MaxCbTicks
  /\ now' = now + CbTickStep(now)
  /\ cbTicks' = cbTicks + 1
  /\ UNCHANGED <<httpVars, auxVars, clientVars, pkce, cbs, issuedStates>>

----------------------------------------------------------------------------
(* DPoP requests: fetchWithDPoPRetry (token endpoint) and Session.makeRequest *)
(* over makeDPoPRequest (resource server).  One request runs at a time: the  *)
(* helpers share no state.                                                   *)

Statuses == {200, 400, 401, 500}
Nonces == {"n1", "n2"}

\* a response: its status and its DPoP-Nonce header (headers.get gives null
\* when there is none; an empty value is falsy as well)
Responses == [status : Statuses, nonce : {None} \cup {Some(n) : n \in Nonces}]

\* response.ok
Ok(r) == r.status >= 200 /\ r.status <= 299

\* URLs: origin, path, query string and fragment ("" when there is none)
Origins == {"https://pds1", "https://pds2"}
Url(o, p, q, f) == [origin |-> o, path |-> p, query |-> q, frag |-> f]
Urls ==
  {Url("https://pds1", "/xrpc/a", "", ""), Url("https://pds1", "/xrpc/a", "limit=1", ""),
   Url("https://pds1", "/xrpc/a", "", "top"), Url("https://pds2", "/xrpc/a", "", "")}
TokenUrl == Url("https://pds1", "/oauth/token", "", "")
Methods == {"GET", "POST"}
Bodies == {None, Some("body")}

\* the payload of the proof generateDPoPProof signs: htm and htu are the method
\* and the url as given, ath is present with an access token, nonce when one
\* is passed, jti is a fresh random UUID (here: the number of the proof)
generateDPoPProof(method, url, accessToken, nonce, jti) ==
  [htm |-> method, htu |-> url, ath |-> accessToken, nonce |-> nonce, jti |-> jti]

\* a request sent: what fetch is given, with the claims of its DPoP proof
Sent(method, url, body, token, nonce, jti) ==
  LET proof == generateDPoPProof(method, url, token, nonce, jti) IN
  [method |-> method, url |-> url, body |-> body, token |-> token,
   nonce |-> proof.nonce, htu |-> proof.htu, htm |-> proof.htm, jti |-> proof.jti]

NoRequest ==
  [fn |-> "", arg |-> "", pc |-> "idle", sent |-> << >>, got |-> << >>,
   out |-> "pending", ret |-> None, err |-> "", hasCb |-> FALSE, refreshes |-> 0,
   method |-> "", url |-> TokenUrl, body |-> None, token |-> ""]

\* the request of the call in progress, with a proof that carries nonce
NextSent(nonce) ==
  Sent(req.method, req.url, req.body, req.token, nonce, Len(req.sent) + 1)

\* history: a response from the origin of the request in progress was seen
Observe(r) ==
  IF r.nonce # None THEN [observed EXCEPT ![req.url.origin] = r.nonce] ELSE observed

RetriesOnAnyError(r) == ~Ok(r) /\ r.nonce # None

\* fetchWithDPoPRetry retries when the response is non-OK with status 400 and
\* has a DPoP-Nonce header
RetriesWithNonce(r) == ~Ok(r) /\ r.status = 400 /\ r.nonce # None

RetriesAny401(r) == r.status = 401

\* makeDPoPRequest retries when the response has status 401 and a DPoP-Nonce
\* header
RetriesChallenge(r) == r.status = 401 /\ r.nonce # None

\* the code exchange or the refresh grant calls fetchWithDPoPRetry: a proof
\* without nonce is generated and the first request is sent
fetchWithDPoPRetry(grant) ==
  /\ req.pc \in {"idle", "done"}
  /\ req' = [NoRequest EXCEPT !.fn = "fetchWithDPoPRetry", !.arg = grant,
                              !.method = "POST", !.body = Some(grant),
                              !.pc = "first",
                              !.sent = <<Sent("POST", TokenUrl, Some(grant), "", None, 1)>>]
  /\ UNCHANGED <<now, clientVars, cbVars, auxVars, observed, pure, sn>>

\* the token endpoint answers: the first answer is retried with its nonce or
\* returned, the second is returned
TokenEndpointAnswered(r) ==
  /\ req.fn = "fetchWithDPoPRetry" /\ req.pc \in {"first", "second"}
  /\ req' = IF req.pc = "first" /\ RetriesWithNonce(r)
            THEN [req EXCEPT !.got = Append(@, r), !.pc = "second",
                             !.sent = Append(@, NextSent(r.nonce))]
            ELSE [req EXCEPT !.got = Append(@, r), !.pc = "done", !.out = "ok",
                             !.ret = Some(r)]
  /\ observed' = Observe(r)
  /\ UNCHANGED <<now, clientVars, cbVars, auxVars, pure, sn>>

\* fetch rejects: the rejection leaves fetchWithDPoPRetry as it is
TokenEndpointUnreachable ==
  /\ req.fn = "fetchWithDPoPRetry" /\ req.pc \in {"first", "second"}
  /\ req' = [req EXCEPT !.pc = "done", !.out = "err", !.err = "TypeError"]
  /\ UNCHANGED <<now, clientVars, cbVars, auxVars, observed, pure, sn>>

\* session.makeRequest(method, url, {body}) on a session with or without the
\* refresh callback of its client: makeDPoPRequest generates a proof without
\* nonce and sends the first request with the session's access token
makeRequest(hasCb, method, url, body) ==
  /\ req.pc \in {"idle", "done"}
  /\ req' = [NoRequest EXCEPT !.fn = "makeRequest", !.hasCb = hasCb,
                              !.method = method, !.url = url, !.body = body,
                              !.token = "current",
                              !.pc = "first",
                              !.sent = <<Sent(method, url, body, "current", None, 1)>>]
  /\ UNCHANGED <<now, clientVars, cbVars, auxVars, observed, pure, sn>>

\* the resource server answers: a 401 with a nonce is retried once with the
\* nonce; any other answer, and the answer to the retry, is returned by
\* makeDPoPRequest and by makeRequest
ResourceAnswered(r) ==
  /\ req.fn = "makeRequest" /\ req.pc \in {"first", "second"}
  /\ req' = IF req.pc = "first" /\ RetriesChallenge(r)
            THEN [req EXCEPT !.got = Append(@, r), !.pc = "second",
                             !.sent = Append(@, NextSent(r.nonce))]
            ELSE [req EXCEPT !.got = Append(@, r), !.pc = "done", !.out = "ok",
                             !.ret = Some(r)]
  /\ observed' = Observe(r)
  /\ UNCHANGED <<now, clientVars, cbVars, auxVars, pure, sn>>

\* fetch rejects: makeDPoPRequest throws DPoPError, makeRequest wraps it
ResourceUnreachable ==
  /\ req.fn = "makeRequest" /\ req.pc \in {"first", "second"}
  /\ req' = [req EXCEPT !.pc = "done", !.out = "err", !.err = "SessionError"]
  /\ UNCHANGED <<now, clientVars, cbVars, auxVars, observed, pure, sn>>

----------------------------------------------------------------------------
(* validation.ts: validateAuthServerMetadata and validateTokenResponse.     *)
(* A JSON value is a record of its type and its content; a string is the    *)
(* sequence of its pieces, << >> being the empty string.                     *)

JsValue(t, str, num, arr) == [t |-> t, s |-> str, n |-> num, a |-> arr]
Undefined == JsValue("undefined", << >>, 0, {})
Null == JsValue("null", << >>, 0, {})
Str(str) == JsValue("string", str, 0, {})
Num(num) == JsValue("number", << >>, num, {})
Arr(items) == JsValue("array", << >>, 0, items)

IsString(v) == v.t = "string"

\* !v of JavaScript is false
Truthy(v) ==
  CASE v.t = "string" -> v.s # << >>
    [] v.t = "number" -> v.n # 0
    [] v.t = "array" -> TRUE
    [] OTHER -> FALSE

\* an object parsed from JSON with the given fields, and values that are not
\* objects
JsObject(fields) == [t |-> "object", fields |-> fields]
NotAnObject(t) == [t |-> t, fields |-> << >>]

\* new URL(str): str parses when it is a scheme, an authority and perhaps a
\* path; protocol and origin of the parsed URL
Schemes == {"https:", "http:"}
Authorities == {"//bsky.social", "//evil.com"}
ParsesAsUrl(str) == Len(str) >= 2 /\ str[1] \in Schemes /\ str[2] \in Authorities
UrlProtocol(str) == str[1]
UrlOrigin(str) == <<str[1], str[2]>>

\* String.prototype.toLowerCase, startsWith and includes
LowerCaseOf(piece) ==
  CASE piece \in {"DPoP", "DPOP", "dpop"} -> "dpop"
    [] piece = "Bearer" -> "bearer"
    [] OTHER -> piece
KeepCase(str) == str
ToLowerCase(str) == [i \in DOMAIN str |-> LowerCaseOf(str[i])]
StartsWith(str, piece) == Len(str) >= 1 /\ str[1] = piece
Includes(str, piece) == \E i \in DOMAIN str : str[i] = piece

\* what a call ends in
Returned(value) == [ok |-> TRUE, value |-> value, cls |-> "", msg |-> ""]
Thrown(cls, msg) == [ok |-> FALSE, value |-> << >>, cls |-> cls, msg |-> msg]
MetadataValidationError(msg) == Thrown("MetadataValidationError", msg)
TokenValidationError(msg) == Thrown("TokenValidationError", msg)

requireAnyUrl(url) ==
  IF ~ParsesAsUrl(url) THEN "is not a valid URL" ELSE ""

\* requireHttpsUrl(url, label): the message of the error it throws, "" when it
\* returns
requireHttpsUrl(url) ==
  IF ~ParsesAsUrl(url) THEN "is not a valid URL"
  ELSE IF UrlProtocol(url) # "https:" THEN "must use HTTPS"
  ELSE ""

\* the check of an optional endpoint: skipped when the value is falsy
OptionalEndpointError(v) ==
  IF ~Truthy(v) THEN ""
  ELSE IF ~IsString(v) THEN "invalid"
  ELSE requireHttpsUrl(v.s)

validateAuthServerMetadata(metadata, expectedIssuer) ==
  LET md == metadata.fields IN
  IF metadata.t # "object"
  THEN MetadataValidationError("metadata is not an object")
  ELSE IF ~IsString(md.issuer) \/ ~Truthy(md.issuer)
  THEN MetadataValidationError("missing or invalid 'issuer' field")
  ELSE IF ~ParsesAsUrl(md.issuer.s) \/ ~ParsesAsUrl(expectedIssuer)
  THEN Thrown("TypeError", "Invalid URL")
  ELSE IF UrlOrigin(md.issuer.s) # UrlOrigin(expectedIssuer)
  THEN MetadataValidationError("issuer origin does not match expected")
  ELSE IF ~IsString(md.authorization_endpoint) \/ ~Truthy(md.authorization_endpoint)
  THEN MetadataValidationError("missing 'authorization_endpoint'")
  ELSE IF requireHttpsUrl(md.authorization_endpoint.s) # ""
  THEN MetadataValidationError(requireHttpsUrl(md.authorization_endpoint.s))
  ELSE IF ~IsString(md.token_endpoint) \/ ~Truthy(md.token_endpoint)
  THEN MetadataValidationError("missing 'token_endpoint'")
  ELSE IF requireHttpsUrl(md.token_endpoint.s) # ""
  THEN MetadataValidationError(requireHttpsUrl(md.token_endpoint.s))
  ELSE IF OptionalEndpointError(md.pushed_authorization_request_endpoint) # ""
  THEN MetadataValidationError(
         OptionalEndpointError(md.pushed_authorization_request_endpoint))
  ELSE IF OptionalEndpointError(md.revocation_endpoint) # ""
  THEN MetadataValidationError(OptionalEndpointError(md.revocation_endpoint))
  ELSE IF md.dpop_signing_alg_values_supported # Undefined
          /\ md.dpop_signing_alg_values_supported.t # "array"
  THEN MetadataValidationError("'dpop_signing_alg_values_supported' must be an array")
  ELSE IF md.dpop_signing_alg_values_supported # Undefined
          /\ "ES256" \notin md.dpop_signing_alg_values_supported.a
  THEN MetadataValidationError("server does not support ES256 for DPoP")
  ELSE Returned(md)

validateTokenResponse(response) ==
  LET r == response.fields IN
  IF response.t # "object"
  THEN TokenValidationError("token response is not an object")
  ELSE IF ~IsString(r.access_token) \/ ~Truthy(r.access_token)
  THEN TokenValidationError("missing or empty 'access_token'")
  ELSE IF ~IsString(r.token_type)
  THEN TokenValidationError("missing 'token_type'")
  ELSE IF ToLowerCase(r.token_type.s) # <<"dpop">>
  THEN TokenValidationError("unexpected token_type")
  ELSE IF ~IsString(r.sub) \/ ~Truthy(r.sub)
  THEN TokenValidationError("missing 'sub' claim")
  ELSE IF ~StartsWith(r.sub.s, "did:")
  THEN TokenValidationError("invalid 'sub' claim")
  ELSE IF ~IsString(r.scope) \/ ~Truthy(r.scope)
  THEN TokenValidationError("missing 'scope'")
  ELSE IF ~Includes(r.scope.s, "atproto")
  THEN TokenValidationError("scope does not include required atproto scope")
  ELSE IF r.expires_in.t # "number" \/ r.expires_in.n <= 0
  THEN TokenValidationError("invalid 'expires_in' value")
  ELSE IF r.refresh_token # Undefined /\ ~IsString(r.refresh_token)
  THEN TokenValidationError("'refresh_token' must be a string if present")
  ELSE Returned(r)

\* the metadata documents and the token responses a server can send
HttpsUrl == <<"https:", "//bsky.social", "/oauth">>
EndpointValues ==
  {Undefined, Str(<< >>), Str(HttpsUrl), Str(<<"http:", "//bsky.social", "/oauth">>),
   Str(<<"not-a-url">>)}
OptionalEndpointValues == EndpointValues \cup {Null, Num(1)}
RawMetadata ==
  {NotAnObject("null"), NotAnObject("string")} \cup
  {JsObject(f) : f \in
     [issuer : {Undefined, Str(<< >>), Num(1), Str(<<"https:", "//bsky.social">>),
                Str(<<"https:", "//bsky.social", "/some/path">>),
                Str(<<"https:", "//evil.com">>), Str(<<"http:", "//bsky.social">>),
                Str(<<"not-a-url">>)},
      authorization_endpoint : EndpointValues,
      token_endpoint : EndpointValues,
      pushed_authorization_request_endpoint : OptionalEndpointValues,
      revocation_endpoint : OptionalEndpointValues,
      dpop_signing_alg_values_supported :
        {Undefined, Null, Str(<<"ES256">>), Arr({}), Arr({"ES256"}), Arr({"RS256"}),
         Arr({"ES256", "RS256"})}]}
ExpectedIssuers ==
  {<<"https:", "//bsky.social">>, <<"https:", "//bsky.social", "/.well-known">>}

RawTokens ==
  {NotAnObject("null"), NotAnObject("string")} \cup
  {JsObject(f) : f \in
     [access_token : {Undefined, Str(<< >>), Str(<<"token">>), Num(1)},
      token_type : {Undefined, Str(<< >>), Str(<<"DPoP">>), Str(<<"dpop">>),
                    Str(<<"DPOP">>), Str(<<"Bearer">>), Str(<<"DPoP", "x">>)},
      sub : {Undefined, Str(<< >>), Str(<<"did:", "plc:abc">>), Str(<<"did:">>),
             Str(<<"user", "did:">>), Num(1)},
      scope : {Undefined, Str(<< >>), Str(<<"atproto">>),
               Str(<<"atproto", " ", "transition:generic">>),
               Str(<<"transition:generic">>), Num(1)},
      expires_in : {Undefined, Num(900), Num(1), Num(0), Num(-1), Str(<<"900">>)},
      refresh_token : {Undefined, Null, Str(<< >>), Str(<<"refresh">>), Num(1)}]}

\* a call of one of the two functions, before and after it is evaluated
Pending == [ok |-> FALSE, value |-> << >>, cls |-> "", msg |-> "pending"]
PureCall(fn, raw, arg) == [fn |-> fn, raw |-> raw, arg |-> arg, out |-> Pending]
NoPure == PureCall("", NotAnObject("null"), << >>)

MetadataValidated ==
  /\ pure.fn = "validateAuthServerMetadata" /\ pure.out = Pending
  /\ pure' = [pure EXCEPT !.out = validateAuthServerMetadata(pure.raw, pure.arg)]
  /\ UNCHANGED <<now, clientVars, cbVars, auxVars, req, observed, sn>>

TokenResponseValidated ==
  /\ pure.fn = "validateTokenResponse" /\ pure.out = Pending
  /\ pure' = [pure EXCEPT !.out = validateTokenResponse(pure.raw)]
  /\ UNCHANGED <<now, clientVars, cbVars, auxVars, req, observed, sn>>

----------------------------------------------------------------------------
(* A Session object on its own: the getters isExpired and timeUntilExpiry,  *)
(* updateTokens, toJSON and fromJSON                                         *)

MaxSessionTicks == 2
MaxUpdates == 2

\* the SessionData a Session is constructed with: the data of the client
\* model with handle, pdsUrl and the public key
FullSessionData(exp) ==
  [did |-> "did:a", handle |-> "a.test", pdsUrl |-> "https://pds1", at |-> 1,
   rt |-> 1, key |-> 1, pub |-> 1, exp |-> exp]

\* tokenExpiresAt of the session constructed: around the refresh buffer and
\* around the times of the clock
ExpiryChoices ==
  {0, RefreshBufferMs - 1, RefreshBufferMs, RefreshBufferMs + 1,
   2 * RefreshBufferMs, 2 * RefreshBufferMs + 1, 4 * RefreshBufferMs}

\* the argument of the n-th updateTokens: a new access token, a new refresh
\* token or none (0), expiresIn in seconds
TokenUpdates(n) ==
  [at : {10 + n}, rt : {0, 20 + n}, expiresIn : {0, 300, 900}]

toJSONWithoutExpiry(d) ==
  [did |-> d.did, handle |-> d.handle, pdsUrl |-> d.pdsUrl, at |-> d.at,
   rt |-> d.rt, key |-> d.key, pub |-> d.pub, exp |-> 0]

\* toJSON: { ...this.data }, a new object with the fields of the data
toJSON(d) ==
  [did |-> d.did, handle |-> d.handle, pdsUrl |-> d.pdsUrl, at |-> d.at,
   rt |-> d.rt, key |-> d.key, pub |-> d.pub, exp |-> d.exp]

\* Session.fromJSON(data): a Session whose data is the object given
fromJSON(data) == data

\* read: the getters as last read, and when; tok, prev, tokAt: the last
\* updateTokens, the data before it and its time; copy: the data of the last
\* fromJSON(toJSON()), copyOf: the number of updates made before it
Constructed(d) ==
  [data |-> d, read |-> None, updates |-> 0, tok |-> None, prev |-> None,
   tokAt |-> 0, copy |-> None, copyOf |-> 0]
NoSession == Constructed(FullSessionData(0))

SessionTick ==
  /\ now < MaxSessionTicks * TickMs
  /\ now' = now + TickMs
  /\ UNCHANGED <<clientVars, cbVars, auxVars, req, observed, pure, sn>>

\* session.isExpired and session.timeUntilExpiry are read
ExpiryRead ==
  /\ sn' = [sn EXCEPT !.read = Some([isExpired |-> IsExpired(sn.data, now),
                                     timeUntilExpiry |-> TimeUntilExpiry(sn.data, now),
                                     exp |-> sn.data.exp, at |-> now])]
  /\ UNCHANGED <<now, clientVars, cbVars, auxVars, req, observed, pure>>

\* session.updateTokens(tok)
updateTokens(tok) ==
  /\ sn.updates < MaxUpdates
  /\ sn' = [sn EXCEPT !.data = UpdateTokens(sn.data, tok, now),
                      !.updates = @ + 1, !.tok = Some(tok), !.prev = Some(sn.data),
                      !.tokAt = now]
  /\ UNCHANGED <<now, clientVars, cbVars, auxVars, req, observed, pure>>

\* Session.fromJSON(session.toJSON())
RoundTrip ==
  /\ sn' = [sn EXCEPT !.copy = Some(fromJSON(toJSON(sn.data))), !.copyOf = sn.updates]
  /\ UNCHANGED <<now, clientVars, cbVars, auxVars, req, observed, pure>>

----------------------------------------------------------------------------
(* OAuthClient.authorize with its failures.  A task is one call; st is the  *)
(* state it generated, "" before that.                                       *)

\* an input that is neither an https:// URL nor a valid handle
InvalidHandles == {"not a handle"}

isValidHandle(input) == input \notin InvalidHandles

NewAuthorize(input) ==
  [input |-> input, pc |-> "start", out |-> "pending", err |-> "", st |-> "",
   did |-> "", pdsUrl |-> "", stored |-> FALSE, left |-> FALSE]

AuthorizeReject(a, cls, left) ==
  [a EXCEPT !.pc = "done", !.out = "err", !.err = cls, !.left = left]

\* authorize(input) up to its first await
authorizeCall(input) ==
  /\ Len(auths) < MaxAuthorizes
  /\ LET isAuthServerUrl == input \in AuthServerUrls
         a == NewAuthorize(input)
     IN auths' = Append(auths,
          IF ~isAuthServerUrl /\ ~isValidHandle(input)
          THEN AuthorizeReject(a, "InvalidHandleError", FALSE)
          ELSE IF isAuthServerUrl
               THEN [a EXCEPT !.pc = "discover", !.pdsUrl = input]
               ELSE [a EXCEPT !.pc = "resolve"])
  /\ UNCHANGED <<now, clientVars, cbVars, httpVars, auto, mem, rsv>>

\* `await this.handleResolver(handle)` settles
AuthorizeResolved(i, ok) ==
  /\ auths[i].pc = "resolve"
  /\ auths' = [auths EXCEPT ![i] =
        IF ok
        THEN [@ EXCEPT !.pc = "discover", !.did = DidOf(auths[i].input),
                       !.pdsUrl = PdsOf(DidOf(auths[i].input))]
        ELSE AuthorizeReject(@, "HandleResolutionError", FALSE)]
  /\ UNCHANGED <<now, clientVars, cbVars, httpVars, auto, mem, rsv>>

\* `await discoverOAuthEndpointsFromPDS(...)` settles; on success the PKCE
\* parameters and the state are generated and storage.set is called
AuthorizeDiscovered(i, ok) ==
  /\ auths[i].pc = "discover"
  /\ auths' = [auths EXCEPT ![i] =
        IF ok THEN [@ EXCEPT !.pc = "store"]
        ELSE AuthorizeReject(@, "PDSDiscoveryError", FALSE)]
  /\ UNCHANGED <<now, clientVars, cbVars, httpVars, auto, mem, rsv>>

\* `await this.storage.set("pkce:<state>", ..., {ttl})` resolves: the record
\* is in the storage, and the Pushed Authorization Request is sent
AuthorizeStored(i, st) ==
  /\ auths[i].pc = "store"
  /\ st \notin issuedStates
  /\ LET a == auths[i]
         isAuthServerUrl == a.input \in AuthServerUrls
         issuer == DiscoverIssuer(a.pdsUrl)
         value == [authServer |-> issuer, issuer |-> issuer,
                   handle |-> IF isAuthServerUrl THEN "" ELSE a.input,
                   did |-> a.did, pdsUrl |-> a.pdsUrl]
     IN pkce' = [pkce EXCEPT ![st] = Some(PkceItem(value, now))]
  /\ issuedStates' = issuedStates \cup {st}
  /\ auths' = [auths EXCEPT ![i] = [@ EXCEPT !.pc = "par", !.st = st, !.stored = TRUE]]
  /\ UNCHANGED <<now, clientVars, cbs, cbTicks, httpVars, auto, mem, rsv>>

\* storage.set rejects: the catch wraps the error in an OAuthError
AuthorizeStoreFailed(i) ==
  /\ auths[i].pc = "store"
  /\ auths' = [auths EXCEPT ![i] = AuthorizeReject(@, "OAuthError", FALSE)]
  /\ UNCHANGED <<now, clientVars, cbVars, httpVars, auto, mem, rsv>>

\* the answers to the Pushed Authorization Request: a 2xx response, another
\* response, or no response (fetch rejects)
ParOutcomes == {"ok", "notOk", "unreachable"}

\* pushAuthorizationRequest settles: the URL is returned, or the OAuthError of
\* a response that is not ok is rethrown, or the rejection of fetch is wrapped
AuthorizePushed(i, r) ==
  /\ auths[i].pc = "par"
  /\ auths' = [auths EXCEPT ![i] =
        IF r = "ok" THEN [@ EXCEPT !.pc = "done", !.out = "ok"]
        ELSE AuthorizeReject(@, "OAuthError", StorageGet(auths[i].st, now) # None)]
  /\ UNCHANGED <<now, clientVars, cbVars, httpVars, auto, mem, rsv>>

----------------------------------------------------------------------------
(* storage.ts: MemoryStorage.  data is the Map; last, got and frame are      *)
(* history: the latest set of a key since its last delete, the latest get    *)
(* with what it returned, and whether the latest operation left what get     *)
(* returns for the other keys as it was.                                     *)

MemKeys == {"k1", "k2"}
MemValues == {"v1", "v2"}

\* options?.ttl in seconds: no option, 0, or one second
TtlChoices == {None, Some(0), Some(1)}

\* the clock of the storage advances by half a second
MemStepMs == 500

NoMem ==
  [data |-> [k \in MemKeys |-> None], last |-> [k \in MemKeys |-> None],
   got |-> None, frame |-> TRUE]

MemoryItemMillis(value, ttl, t) ==
  [value |-> value,
   expiresAt |-> IF ttl # None /\ ttl[1] # 0 THEN t + ttl[1] ELSE 0]

\* set: `options?.ttl ? Date.now() + (options.ttl * 1000) : undefined`; an
\* absent expiresAt is 0
MemoryItem(value, ttl, t) ==
  [value |-> value,
   expiresAt |-> IF ttl # None /\ ttl[1] # 0 THEN t + ttl[1] * 1000 ELSE 0]

\* what get(k) returns at time t over the Map data: << >> for null
Lookup(data, k, t) ==
  IF data[k] = None \/ Expired(data[k][1], t) THEN None ELSE Some(data[k][1].value)

\* the operation mapping data to next left get as it was for every key but k
OthersKept(data, next, k) ==
  \A k2 \in MemKeys \ {k} : Lookup(next, k2, now) = Lookup(data, k2, now)

\* MemoryStorage.get(k): an expired item is removed from the Map
MemGet(k) ==
  LET next == IF mem.data[k] # None /\ Expired(mem.data[k][1], now)
              THEN [mem.data EXCEPT ![k] = None] ELSE mem.data
  IN /\ mem' = [mem EXCEPT !.data = next,
                           !.got = Some([key |-> k, ret |-> Lookup(mem.data, k, now),
                                         at |-> now, last |-> mem.last[k]]),
                           !.frame = OthersKept(mem.data, next, k)]
     /\ UNCHANGED <<now, clientVars, cbVars, httpVars, auto, auths, rsv>>

\* MemoryStorage.set(k, v, options)
MemSet(k, v, ttl) ==
  LET next == [mem.data EXCEPT ![k] = Some(MemoryItem(v, ttl, now))]
  IN /\ mem' = [mem EXCEPT !.data = next,
                           !.last = [@ EXCEPT ![k] = Some([value |-> v, at |-> now,
                                                           ttl |-> ttl])],
                           !.frame = OthersKept(mem.data, next, k)]
     /\ UNCHANGED <<now, clientVars, cbVars, httpVars, auto, auths, rsv>>

\* MemoryStorage.delete(k)
MemDelete(k) ==
  LET next == [mem.data EXCEPT ![k] = None]
  IN /\ mem' = [mem EXCEPT !.data = next,
                           !.last = [@ EXCEPT ![k] = None],
                           !.frame = OthersKept(mem.data, next, k)]
     /\ UNCHANGED <<now, clientVars, cbVars, httpVars, auto, auths, rsv>>

\* time passes
MemTick ==
  /\ now < MaxMemTicks * MemStepMs
  /\ now' = now + MemStepMs
  /\ UNCHANGED <<clientVars, cbVars, httpVars, auxVars>>

----------------------------------------------------------------------------
(* resolvers.ts: SlingshotResolver, DirectoryResolver, CustomResolver and    *)
(* resolveDidDocument.  One resolve(handle) call runs at a time; tried, failed *)
(* and log are history: the methods entered, those that failed, and what the *)
(* network answered.                                                         *)

Resolvers == {"SlingshotResolver", "DirectoryResolver", "CustomResolver"}

\* a handle with a domain, and one without a dot
ResolverHandles == {"a.test", "localhost"}

\* the methods of the default resolver: resolveMiniDoc and resolveHandle of
\* Slingshot, resolveHandle of bsky.social, /.well-known/atproto-did
Methods4 == <<"miniDoc", "slingshot", "bsky", "direct">>

\* the answer to a handle lookup: fetch resolved (reach) or rejected, the
\* status is 2xx (ok), the body parses, it names a DID, it names a PDS
LookupAnswer(reach, ok, body, did, pds) ==
  [reach |-> reach, ok |-> ok, body |-> body, did |-> did, pds |-> pds]

LookupAnswers ==
  {LookupAnswer(FALSE, FALSE, FALSE, FALSE, FALSE),
   LookupAnswer(TRUE, FALSE, TRUE, TRUE, TRUE),
   LookupAnswer(TRUE, TRUE, FALSE, FALSE, FALSE),
   LookupAnswer(TRUE, TRUE, TRUE, FALSE, FALSE),
   LookupAnswer(TRUE, TRUE, TRUE, TRUE, FALSE),
   LookupAnswer(TRUE, TRUE, TRUE, TRUE, TRUE)}

\* the answer of plc.directory: the document with a PDS service, or a failure
DidDocAnswers == {"ok", "notOk", "unreachable", "noService", "badEndpoint"}

\* resolveDidDocument: every failure is thrown as PDSDiscoveryError
resolveDidDocument(r, did) ==
  IF r = "ok" THEN Returned(PdsOf(did)) ELSE Thrown("PDSDiscoveryError", did)

\* the checks of a method on the answer to its lookup; "" when they pass
LookupFailure(method, r) ==
  IF ~r.reach THEN "TypeError"
  ELSE IF ~r.ok THEN "Error"
  ELSE IF method = "direct"
       THEN IF ~r.did THEN "Error" ELSE ""
       ELSE IF ~r.body THEN "SyntaxError"
            ELSE IF method = "miniDoc"
                 THEN IF ~r.did \/ ~r.pds THEN "Error" ELSE ""
                 ELSE IF ~r.did THEN "Error" ELSE ""

NoResolve ==
  [resolver |-> "", handle |-> "", pc |-> "idle", method |-> "", out |-> "",
   err |-> "", ret |-> None, tried |-> << >>, failed |-> {}, log |-> << >>]

\* resolveHandleDirectly throws before any request when the handle has no dot
DirectNeedsDomain(handle) == handle = "localhost"

MethodAfterSkippingBluesky(method) ==
  IF method = "miniDoc" THEN "slingshot"
  ELSE IF method = "slingshot" THEN "direct"
  ELSE ""

\* the method the default resolver turns to when the given one failed: the
\* catch of resolveHandleWithSlingshot, the catch of resolve, the loop of
\* fallbackResolve; "" when none is left
MethodAfter(method) ==
  IF method = "miniDoc" THEN "slingshot"
  ELSE IF method = "slingshot" THEN "bsky"
  ELSE IF method = "bsky" THEN "direct"
  ELSE ""

ResolveResolved(r, pdsUrl) ==
  [r EXCEPT !.pc = "done", !.out = "ok",
            !.ret = Some([did |-> DidOf(r.handle), pdsUrl |-> pdsUrl])]

ResolveRejected(r, cls) == [r EXCEPT !.pc = "done", !.out = "err", !.err = cls]

\* the current method failed / the method m is entered
MethodFailed(r) == [r EXCEPT !.failed = @ \cup {r.method}]
MethodEntered(r, m) == [r EXCEPT !.method = m, !.tried = Append(@, m), !.pc = "lookup"]

\* the default resolver after the failure of its current method: the next
\* method is entered, or HandleResolutionError is thrown
MethodTurn(r) ==
  IF MethodAfter(r.method) = ""
  THEN ResolveRejected(MethodFailed(r), "HandleResolutionError")
  ELSE MethodEntered(MethodFailed(r), MethodAfter(r.method))

\* the same up to the next request: resolveHandleDirectly fails at once for a
\* handle without a dot
SlingshotFailed(r) ==
  LET n == MethodTurn(r)
  IN IF n.pc = "lookup" /\ n.method = "direct" /\ DirectNeedsDomain(n.handle)
     THEN MethodTurn(n) ELSE n

\* resolver.resolve(handle) up to its first request
resolve(resolver, handle) ==
  /\ rsv.pc \in {"idle", "done"}
  /\ rsv' = [NoResolve EXCEPT
        !.resolver = resolver, !.handle = handle,
        !.pc = IF resolver = "CustomResolver" THEN "custom" ELSE "lookup",
        !.method = IF resolver = "SlingshotResolver" THEN "miniDoc"
                   ELSE IF resolver = "DirectoryResolver" THEN "bsky" ELSE "custom",
        !.tried = IF resolver = "SlingshotResolver" THEN <<"miniDoc">> ELSE << >>]
  /\ UNCHANGED <<now, clientVars, cbVars, httpVars, auto, auths, mem>>

\* the lookup of the current method is answered
LookupAnswered(r) ==
  /\ rsv.pc = "lookup"
  /\ LET cur == [rsv EXCEPT !.log = Append(@, <<rsv.method, r>>)]
         e == LookupFailure(rsv.method, r)
     IN rsv' =
          IF rsv.resolver = "SlingshotResolver"
          THEN IF e # "" THEN SlingshotFailed(cur)
               ELSE IF rsv.method = "miniDoc"
                    THEN ResolveResolved(cur, PdsOf(DidOf(rsv.handle)))
                    ELSE [cur EXCEPT !.pc = "didDoc"]
          ELSE \* DirectoryResolver
               IF e = "" THEN [cur EXCEPT !.pc = "didDoc"]
               ELSE IF e = "Error" THEN ResolveRejected(cur, "HandleResolutionError")
                    ELSE ResolveRejected(cur, e)
  /\ UNCHANGED <<now, clientVars, cbVars, httpVars, auto, auths, mem>>

\* plc.directory answers the DID-document lookup of the current method
DidDocAnswered(r) ==
  /\ rsv.pc = "didDoc"
  /\ LET cur == [rsv EXCEPT !.log = Append(@, <<"didDoc", r>>)]
         d == resolveDidDocument(r, DidOf(rsv.handle))
     IN rsv' =
          IF d.ok THEN ResolveResolved(cur, d.value)
          ELSE IF rsv.resolver = "SlingshotResolver" THEN SlingshotFailed(cur)
               ELSE ResolveRejected(cur, d.cls)
  /\ UNCHANGED <<now, clientVars, cbVars, httpVars, auto, auths, mem>>

\* the function given to CustomResolver settles
CustomSettled(ok) ==
  /\ rsv.pc = "custom"
  /\ rsv' = IF ok THEN ResolveResolved(rsv, PdsOf(DidOf(rsv.handle)))
            ELSE ResolveRejected(rsv, "HandleResolutionError")
  /\ UNCHANGED <<now, clientVars, cbVars, httpVars, auto, auths, mem>>

----------------------------------------------------------------------------
(* attachRefreshCallback: the callback the client attaches to a Session for *)
(* the retry after a 401, and the storage key the callback writes.  The      *)
(* application holds Session 1.                                              *)

\* no Session was handed out yet
NoAuto ==
  [origin |-> "", sid |-> "", cbKey |-> "", pc |-> "idle", refreshes |-> 0,
   written |-> {}]

\* the key callback() passes: this.attachRefreshCallback(session, did)
CallbackRefreshKey(did) == did

\* the key restore() passes: this.attachRefreshCallback(session, sessionId)
RestoreRefreshKey(sessionId) == sessionId

\* callback() resolves with a new Session; nothing is stored by callback()
AutoFromCallback ==
  /\ auto.origin = ""
  /\ auto' = [auto EXCEPT !.origin = "callback",
                          !.cbKey = CallbackRefreshKey(sess[1].did)]
  /\ UNCHANGED <<now, clientVars, cbVars, httpVars, auths, mem, rsv>>

\* the application saves the Session it got from callback(): store(sessionId, s)
AutoStore(sessionId) ==
  /\ auto.origin = "callback" /\ auto.sid = "" /\ auto.pc = "idle"
  /\ storage' = [storage EXCEPT ![sessionId] = Some(sess[1])]
  /\ auto' = [auto EXCEPT !.sid = sessionId]
  /\ UNCHANGED <<now, sess, srvRT, issued, ops, restoreLocks, refreshLocks, cfgLock,
                 mutex, calls, iso, cbVars, httpVars, auths, mem, rsv>>

\* restore(sessionId) of a stored session that is not expired resolves with
\* Session.fromJSON of the record, the callback attached
AutoFromRestore(sessionId) ==
  /\ auto.origin = ""
  /\ storage[sessionId] # None
  /\ ~IsExpired(storage[sessionId][1], now)
  /\ sess' = <<storage[sessionId][1]>>
  /\ auto' = [auto EXCEPT !.origin = "restore", !.sid = sessionId,
                          !.cbKey = RestoreRefreshKey(sessionId)]
  /\ UNCHANGED <<now, storage, srvRT, issued, ops, restoreLocks, refreshLocks,
                 cfgLock, mutex, calls, iso, cbVars, httpVars, auths, mem, rsv>>

\* a request of the Session is answered 401 and the Session invokes the
\* callback: `await this.refresh(session)` resolves (the Session updated in
\* place) or rejects (the callback rejects, nothing is stored)
AutoRefreshed(ok) ==
  /\ auto.origin # "" /\ auto.pc = "idle"
  /\ auto.refreshes < MaxAutoRefreshes
  /\ ok => issued < MaxTokens
  /\ IF ok
     THEN \E ei \in ExpiresInChoices :
            LET t == issued + 1 IN
              /\ issued' = t
              /\ srvRT' = [srvRT EXCEPT ![sess[1].did] = t]
              /\ sess' = <<UpdateTokens(sess[1], [at |-> t, rt |-> t, expiresIn |-> ei],
                                        now)>>
              /\ auto' = [auto EXCEPT !.pc = "store", !.refreshes = @ + 1]
     ELSE /\ auto' = [auto EXCEPT !.refreshes = @ + 1]
          /\ UNCHANGED <<issued, srvRT, sess>>
  /\ UNCHANGED <<now, storage, ops, restoreLocks, refreshLocks, cfgLock, mutex,
                 calls, iso, cbVars, httpVars, auths, mem, rsv>>

\* `await this.store(sessionId, refreshed)` with the key the callback captured
AutoStored ==
  /\ auto.pc = "store"
  /\ storage' = [storage EXCEPT ![auto.cbKey] = Some(sess[1])]
  /\ auto' = [auto EXCEPT !.pc = "idle",
                          !.written = @ \cup {[key |-> auto.cbKey, sid |-> auto.sid]}]
  /\ UNCHANGED <<now, sess, srvRT, issued, ops, restoreLocks, refreshLocks, cfgLock,
                 mutex, calls, iso, cbVars, httpVars, auths, mem, rsv>>

\* the clock advances
AutoTick ==
  /\ now < MaxTicks * TickMs
  /\ now' = now + TickMs
  /\ UNCHANGED <<clientVars, cbVars, httpVars, auxVars>>

----------------------------------------------------------------------------
(* The restore / refresh specification *)

\* a session was stored under some session ids, expired or not; the application
\* holds it as Session 1
\* a new client: no task, no lock, no call, nothing issued
InitClient ==
  /\ now = 0
  /\ srvRT = [d \in Dids |-> 1]
  /\ issued = 1
  /\ ops = << >>
  /\ restoreLocks = [s \in SessionIds |-> 0]
  /\ refreshLocks = [d \in Dids |-> 0]
  /\ mutex = [d \in Dids |-> 0]
  /\ calls = << >>
  /\ iso = None
  /\ pkce = [st \in States |-> None]
  /\ cbs = << >>
  /\ issuedStates = {}
  /\ cbTicks = 0
  /\ req = NoRequest
  /\ observed = [o \in Origins |-> None]
  /\ auto = NoAuto
  /\ auths = << >>
  /\ mem = NoMem
  /\ rsv = NoResolve

\* a new client over a storage holding some sessions of the account, all
\* expired or all fresh, and a Session object the application holds
InitState ==
  /\ InitClient
  /\ \E exp \in {0, 3 * TickMs} : \E stored \in SUBSET SessionIds :
       /\ storage = [k \in SessKeys |->
                       IF k \in stored THEN Some(SessionData0(exp)) ELSE None]
       /\ sess = <<SessionData0(exp)>>

\* the default configuration: the in-memory refreshLocks
Init == InitState /\ cfgLock = FALSE /\ pure = NoPure /\ sn = NoSession

\* the steps of the tasks of this process
TaskStep ==
  \/ \E i \in 1..Len(ops) : RestoreLoaded(i)
  \/ \E i \in 1..Len(ops) : RestoreRefreshed(i)
  \/ \E i \in 1..Len(ops) : RestorePersisted(i)
  \/ \E i \in 1..Len(ops) : \E ok \in BOOLEAN : RefreshDiscovered(i, ok)
  \/ \E i \in 1..Len(ops) : RefreshSucceeded(i)
  \/ \E i \in 1..Len(ops) : RefreshFailed(i)
  \/ \E i \in 1..Len(ops) : RefreshReloaded(i)

Next ==
  \/ \E sid \in SessionIds : restore(sid)
  \/ \E o \in 1..Len(sess) : refresh(o)
  \/ TaskStep
  \/ Tick

Spec == Init /\ [][Next]_vars

\* the same client beside a refresher in another isolate
NextIso ==
  \/ Next
  \/ \E sid \in SessionIds : IsoRefreshed(sid)
  \/ IsoPersisted

SpecIso == Init /\ [][NextIso]_vars

\* the client configured with a custom requestLock
InitLock == InitState /\ cfgLock = TRUE /\ pure = NoPure /\ sn = NoSession

NextLock ==
  \/ Next
  \/ \E j \in 1..Len(ops) : LockAcquired(j)

SpecLock == InitLock /\ [][NextLock]_vars

\* either configuration
InitAny == InitState /\ cfgLock \in BOOLEAN /\ pure = NoPure /\ sn = NoSession

SpecAny == InitAny /\ [][NextLock]_vars

\* the default configuration with an environment that can fail: the storage
\* may reject a call, the token endpoint may leave a refresh grant unanswered
NextFault ==
  \/ Next
  \/ \E i \in 1..Len(ops) : RestoreLoadFailed(i)
  \/ \E i \in 1..Len(ops) : RestorePersistFailed(i)
  \/ \E j \in 1..Len(ops) : RefreshReloadFailed(j)
  \/ \E j \in 1..Len(ops) : RefreshUnanswered(j)

SpecFault == Init /\ [][NextFault]_vars

\* the default configuration with an onSessionUpdated listener that can throw
NextEvents ==
  \/ Next
  \/ \E j \in 1..Len(ops) : RefreshListenerThrew(j)

SpecEvents == Init /\ [][NextEvents]_vars

\* the event loop runs the continuation of every settled promise, and an
\* endpoint or storage that answers does so in finite time
SpecFaultFair == SpecFault /\ WF_vars(TaskStep)

\* sign-out beside restore, with failing discovery, revocation and storage
SignOutStep ==
  \/ \E i \in 1..Len(ops) : \E r \in SignOutDiscoveries : SignOutDiscovered(i, r)
  \/ \E i \in 1..Len(ops) : \E r \in RevocationOutcomes : SignOutRevoked(i, r)
  \/ \E i \in 1..Len(ops) : SignOutDeleted(i)
  \/ \E i \in 1..Len(ops) : SignOutDeleteFailed(i)

NextSignOut ==
  \/ \E sid \in SessionIds : restore(sid)
  \/ \E sid \in SessionIds : \E o \in 1..Len(sess) : signOut(sid, o)
  \/ TaskStep
  \/ SignOutStep

SpecSignOut == Init /\ [][NextSignOut]_vars

----------------------------------------------------------------------------
(* Claims about restore and refresh *)

Calls(api) == {c \in 1..Len(calls) : calls[c].api = api}
Tasks(kind) == {j \in 1..Len(ops) : ops[j].kind = kind}
Settled(j) == ops[j].out # "pending"

\* the restore calls that were issued while restore task i was in flight
JoinersOf(api, i) == {c \in Calls(api) : calls[c].inflight = i}

\* C1 as stated: when restore(sid) calls were issued while a restore of the
\* expired session was in flight, they all get that restore's promise, and
\* once it has settled exactly one storage load and exactly one token request
\* were performed for it.
C1_Original ==
  \A i \in Tasks("restore") :
    (Settled(i) /\ ops[i].expired /\ JoinersOf("restore", i) # {}) =>
      /\ \A c \in JoinersOf("restore", i) : calls[c].promise = i
      /\ ops[i].loads + ops[ops[i].wait].loads = 1
      /\ ops[ops[i].wait].reqs = 1

\* C1, amended: every restore(sid) call issued while a restore of sid is in
\* flight gets the promise of that restore and starts nothing; a restore loads
\* session:<sid> exactly once, and the refresh it awaits sends at most one
\* token request: exactly one whenever it yields a session.
C1_RestoreSingleFlight ==
  /\ \A c \in Calls("restore") :
        calls[c].inflight # 0 => calls[c].promise = calls[c].inflight
  /\ \A i \in Tasks("restore") :
        /\ ops[i].loads = 1
        /\ ops[i].expired =>
              /\ ops[ops[i].wait].reqs <= 1
              /\ ops[ops[i].wait].out = "ok" => ops[ops[i].wait].reqs = 1
              /\ ops[i].out = "ok" => ops[ops[i].wait].reqs = 1

C1_Witness ==
  \E i \in Tasks("restore") :
    /\ ops[i].out = "ok" /\ ops[i].expired
    /\ ops[ops[i].wait].reqs = 1
    /\ \E c \in JoinersOf("restore", i) : calls[c].promise = i

\* C2 as stated: when refresh(s) calls for a DID were issued while a refresh
\* for it was in flight, they all get that refresh's promise and the token
\* endpoint was hit exactly once by it.
C2_Original ==
  \A j \in Tasks("refresh") :
    (Settled(j) /\ JoinersOf("refresh", j) # {}) =>
      /\ \A c \in JoinersOf("refresh", j) : calls[c].promise = j
      /\ ops[j].reqs = 1

\* C2, amended: with the in-memory refreshLocks, every refresh(s) call issued
\* while a refresh for the DID is in flight gets the promise of that refresh,
\* at most one refresh per DID is in flight, and a refresh sends at most one
\* token request: exactly one whenever it yields a session.
C2_RefreshSingleFlight ==
  /\ \A c \in Calls("refresh") :
        calls[c].inflight # 0 => calls[c].promise = calls[c].inflight
  /\ \A d \in Dids :
        Cardinality({j \in Tasks("refresh") : ops[j].key = d /\ ~Settled(j)}) <= 1
  /\ \A j \in Tasks("refresh") :
        /\ ops[j].reqs <= 1
        /\ ops[j].out = "ok" => ops[j].reqs = 1

C2_Witness ==
  \E j \in Tasks("refresh") :
    /\ ops[j].out = "ok" /\ ops[j].reqs = 1
    /\ \E c \in JoinersOf("refresh", j) : calls[c].promise = j

Refreshing(d) ==
  {j \in Tasks("refresh") : ops[j].key = d /\ ops[j].pc \in {"discover", "request", "sleep"}}

C10_Original ==
  \A j \in Tasks("refresh") :
    (ops[j].pc = "done" /\ ops[j].loads = 1 /\ ops[j].fresh) => ops[j].out = "ok"

----------------------------------------------------------------------------
(* Claims about the failures of restore and refresh *)

\* the token request of refresh task j was left unanswered and the task has
\* not settled
Unanswered(j) == ops[j].kind = "refresh" /\ ops[j].pc = "hung"

\* C11 as stated: a refresh whose token endpoint never answers eventually
\* rejects (the refreshTimeout elapses), and the refreshLocks entry of its DID
\* is then released.
C11_Original ==
  (\E j \in 1..Len(ops) : Unanswered(j))
    ~> (\A j \in 1..Len(ops) :
          ops[j].kind = "refresh" /\ ops[j].reqs > 0 =>
            /\ ~Unanswered(j)
            /\ ops[j].out = "err" => refreshLocks[ops[j].key] # j)

\* C14 as stated: a failed refresh rejects with RefreshTokenExpiredError when
\* the server answered invalid_grant, with NetworkError when the token endpoint
\* could not be reached, with the original TokenExchangeError for any other
\* OAuth error response, and with a wrapping TokenExchangeError for anything
\* else.
C14_Original ==
  \A j \in Tasks("refresh") :
    ops[j].out = "err" =>
      CASE ops[j].cause \in {"invalid_grant", "replayed"} ->
             ops[j].err.cls = "RefreshTokenExpiredError"
        [] ops[j].cause = "unreachable" ->
             ops[j].err.cls = "NetworkError"
        [] ops[j].cause = "invalid_client" ->
             ops[j].err = refreshTokensError("invalid_client")
        [] OTHER ->
             ops[j].err = Err("TokenExchangeError", "", FALSE)

\* C15 as stated: restore rejects only with SessionNotFoundError, with
\* RefreshTokenExpiredError (for invalid_grant), or with a NetworkError or
\* TokenExchangeError passed through unchanged from refresh; every other
\* failure during restore, such as a storage error, is wrapped as SessionError.
C15_Original ==
  \A i \in Tasks("restore") :
    ops[i].out = "err" =>
      LET e == ops[i].err IN
      IF ops[i].cause \in {"storage.get", "storage.set"}
      THEN e.cls = "SessionError"
      ELSE IF ops[i].wait = 0
           THEN e.cls = "SessionNotFoundError"
           ELSE LET r == ops[ops[i].wait].err IN
                IF r.cls \in TokenExchangeClasses /\ r.code = "invalid_grant"
                THEN e.cls = "RefreshTokenExpiredError"
                ELSE IF r.cls \in TokenExchangeClasses \cup {"NetworkError"}
                     THEN e = r
                     ELSE e.cls = "SessionError"

\* C16: restore(sessionId) never resolves with null; when storage.get finds no
\* record under session:<sessionId> it rejects with SessionNotFoundError,
\* having started no refresh (so no token request) and written nothing to
\* storage.
C16_RestoreNeverNull ==
  \A i \in Tasks("restore") :
    /\ ops[i].out = "ok" => ops[i].found /\ ops[i].res \in 1..Len(sess)
    /\ ops[i].pc = "done" /\ ~ops[i].found /\ ops[i].cause # "storage.get" =>
         /\ ops[i].out = "err"
         /\ ops[i].err = Err("SessionNotFoundError", "", FALSE)
         /\ ops[i].wait = 0 /\ ops[i].writes = 0
         /\ \A j \in Tasks("refresh") : ops[j].obj # ops[i].obj

\* a restore of a session id without a stored record has rejected
C16_Witness ==
  \E i \in Tasks("restore") :
    /\ ops[i].pc = "done" /\ ~ops[i].found /\ ops[i].cause = ""
    /\ ops[i].err.cls = "SessionNotFoundError"
    /\ storage[ops[i].key] = None

\* restore task i resolves in this step
RestoreResolves(i) ==
  ops[i].kind = "restore" /\ ops[i].out = "pending" /\ ops'[i].out = "ok"

\* C17 as stated: whenever restore(sessionId) resolves, the record under
\* session:<sessionId> equals the serialization of the returned session, and a
\* token request was sent only if the stored session was expired.
C17_Original ==
  [][\A i \in 1..Len(ops) :
       RestoreResolves(i) =>
         /\ storage'[ops[i].key] = Some(sess'[ops'[i].res])
         /\ ops'[i].wait # 0 => ops'[i].expired]_vars

\* C17: in the step in which restore(sessionId) resolves, the restore has
\* waited for a refresh (so a token request was sent on its behalf) exactly
\* when the stored session was expired.  A non-expired session is returned
\* with no write, the storage as it was and the record equal to the returned
\* session.  For an expired one the refresh succeeded and the data the returned
\* session had when restore resumed from the refresh was written once: the
\* record equals the returned session unless another refresh of that Session
\* object succeeded while storage.set was in flight.
C17_RestoreResolvesWithStoredSession ==
  [][\A i \in 1..Len(ops) :
       RestoreResolves(i) =>
         LET op == ops'[i] IN
         /\ op.expired <=> op.wait # 0
         /\ op.expired =>
              /\ op.writes = 1
              /\ ops'[op.wait].out = "ok" /\ ops'[op.wait].res = op.res
              /\ storage'[op.key] = ops[i].buf
              /\ \/ storage'[op.key] = Some(sess'[op.res])
                 \/ \E j \in Tasks("refresh") :
                      j # op.wait /\ ops[j].obj = op.res /\ ops[j].out = "ok"
         /\ ~op.expired =>
              /\ op.writes = 0
              /\ storage' = storage
              /\ storage'[op.key] = Some(sess'[op.res])
              /\ ~IsExpired(sess'[op.res], now)]_vars

\* restores have resolved both ways: one returned the stored session as it was,
\* one refreshed an expired session under a session id other than the DID
C17_Witness ==
  \E i, k \in Tasks("restore") :
    /\ ops[i].out = "ok" /\ ~ops[i].expired /\ ops[i].writes = 0
    /\ ops[k].out = "ok" /\ ops[k].expired /\ ops[k].writes = 1
    /\ ops[k].key # sess[ops[k].res].did
    /\ storage[ops[k].key] = Some(sess[ops[k].res])

\* the refresh calls whose promise resolved after a successful token request
RefreshedCalls ==
  {c \in Calls("refresh") :
     ops[calls[c].promise].out = "ok" /\ ops[calls[c].promise].tok # 0}

C12_LocksOnlyInFlight ==
  /\ \A sid \in SessionIds :
       restoreLocks[sid] # 0 =>
         /\ restoreLocks[sid] \in Tasks("restore")
         /\ ops[restoreLocks[sid]].key = sid
         /\ ~Settled(restoreLocks[sid])
  /\ \A d \in Dids :
       refreshLocks[d] # 0 =>
         /\ refreshLocks[d] \in Tasks("refresh")
         /\ ops[refreshLocks[d]].key = d
         /\ ~Settled(refreshLocks[d])
  /\ \A j \in 1..Len(ops) :
       ~Settled(j) /\ ops[j].kind = "restore" => restoreLocks[ops[j].key] = j
  /\ \A c \in 1..Len(calls) :
       calls[c].inflight = 0 =>
         /\ ops[calls[c].promise].key = calls[c].key
         /\ \A b \in 1..(c - 1) : calls[b].promise # calls[c].promise

\* a task settled by a storage failure, and a later call for its key runs a
\* task of its own that now holds the lock
C12_Witness ==
  \E j \in 1..Len(ops) : \E c \in 1..Len(calls) :
    /\ Settled(j) /\ ops[j].cause \in {"storage.get", "storage.set"}
    /\ calls[c].key = ops[j].key /\ calls[c].api = ops[j].kind
    /\ calls[c].promise > j
    /\ ~Settled(calls[c].promise)
    /\ (IF ops[j].kind = "restore" THEN restoreLocks ELSE refreshLocks)[ops[j].key]
         = calls[c].promise

\* C13: a signOut(sessionId, session) whose storage.delete does not fail
\* completes without error, has deleted session:<sessionId> and has emitted
\* onSessionDeleted(sessionId) exactly once, whatever discovery and the
\* revocation request did (discovery failed, no revocation endpoint, 2xx, non-OK
\* status, unreachable endpoint); and it never emits the event more than once.
C13_SignOutAlwaysCleansUp ==
  \A i \in Tasks("signOut") :
    /\ ops[i].events <= 1
    /\ ops[i].pc \in {"discover", "revoke", "delete", "done"}
    /\ ops[i].pc = "done" /\ ops[i].cause # "storage.delete" =>
          /\ ops[i].out = "ok"
          /\ ops[i].gone
          /\ ops[i].events = 1
          /\ ops[i].cause \in (SignOutDiscoveries \ {"endpoint"}) \cup RevocationOutcomes

\* sign-outs completed after a failed discovery and after an unreachable
\* revocation endpoint
C13_Witness ==
  \E i, k \in Tasks("signOut") :
    /\ ops[i].pc = "done" /\ ops[i].cause = "fail" /\ ops[i].events = 1
    /\ ops[k].pc = "done" /\ ops[k].cause = "unreachable" /\ ops[k].reqs = 1
    /\ storage[ops[i].key] = None /\ storage[ops[k].key] = None

\* C34 as stated: sign-out is final: once signOut(sessionId, session) has
\* returned, the record session:<sessionId> stays absent (no store call is made
\* here), under every interleaving with the restore(sessionId) and refresh
\* operations that were in flight during the sign-out.
C34_Original ==
  \A i \in Tasks("signOut") :
    ops[i].out = "ok" => storage[ops[i].key] = None

\* the restore tasks that settled after the refresh they awaited had obtained
\* new tokens from the token endpoint
RestoresAfterNewTokens ==
  {i \in Tasks("restore") :
     ops[i].out # "pending" /\ ops[i].wait # 0 /\ ops[ops[i].wait].tok # 0}

C37_Original ==
  /\ \A j \in Tasks("refresh") : ops[j].out = "err" => ops[j].tok = 0
  /\ \A i \in Tasks("restore") :
       (ops[i].out = "err" /\ ops[i].wait # 0) =>
         (ops[i].writes = 0 /\ ops[ops[i].wait].tok = 0)

\* C24 as stated: on a refresh failure at the token endpoint, a revocation
\* request for the old refresh token is issued if and only if the failure is
\* neither a recognised replay nor a network failure.
C24_Original ==
  \A j \in Tasks("refresh") :
    (ops[j].out = "err" /\ ops[j].cause \in RefreshOutcomes(j) \cup {"replayed"}) =>
      (ops[j].revoked <=> ops[j].cause \notin {"replayed", "unreachable"})

----------------------------------------------------------------------------
(* The restore / refresh specification with two logins of one account: the  *)
(* records under the two session ids hold different DPoP key pairs          *)

\* the DPoP key pair generated by the callback that created session:<sid>
DPoPKeyOf(sid) == IF sid = "did:a" THEN 1 ELSE 2

InitKeys ==
  /\ InitClient /\ cfgLock = FALSE /\ pure = NoPure /\ sn = NoSession
  /\ \E exp \in {0, 3 * TickMs} : \E stored \in SUBSET SessionIds :
       /\ storage = [k \in SessKeys |->
                       IF k \in stored
                       THEN Some([SessionData0(exp) EXCEPT !.key = DPoPKeyOf(k)])
                       ELSE None]
       /\ sess = <<SessionData0(exp)>>

SpecKeys == InitKeys /\ [][Next]_vars

\* C33 as stated: for every successful restore(sid), the session returned and
\* the record persisted under session:<sid> carry the DPoP key pair of the
\* record previously stored under session:<sid>; a restore of one sessionId
\* never returns or persists the data of a different sessionId.
C33_Original ==
  /\ \A i \in Tasks("restore") :
       ops[i].out = "ok" => sess[ops[i].res].key = DPoPKeyOf(ops[i].key)
  /\ \A k \in SessionIds :
       storage[k] # None => storage[k][1].key = DPoPKeyOf(k)

----------------------------------------------------------------------------
(* The refresh callback: a Session obtained from callback() or restore(),   *)
(* saved by the application, and refreshed after a 401                       *)

NextAuto ==
  \/ AutoFromCallback
  \/ \E sid \in SessionIds : AutoStore(sid)
  \/ \E sid \in SessionIds : AutoFromRestore(sid)
  \/ \E ok \in BOOLEAN : AutoRefreshed(ok)
  \/ AutoStored
  \/ AutoTick

SpecAuto == Init /\ [][NextAuto]_vars

\* C36 as stated: the refresh callback of a Session the application keeps
\* under session:<sessionId> (saved with store(sessionId, ...) after callback(),
\* or obtained from restore(sessionId)) writes session:<sessionId> and no
\* other key.
C36_Original ==
  \A w \in auto.written : w.sid # "" => w.key = w.sid

----------------------------------------------------------------------------
(* authorize() with a resolver, a discovery, a storage and an authorization *)
(* server that can fail                                                      *)

AuthorizeStep ==
  \/ \E i \in 1..Len(auths) : \E ok \in BOOLEAN : AuthorizeResolved(i, ok)
  \/ \E i \in 1..Len(auths) : \E ok \in BOOLEAN : AuthorizeDiscovered(i, ok)
  \/ \E i \in 1..Len(auths) : \E st \in States : AuthorizeStored(i, st)
  \/ \E i \in 1..Len(auths) : AuthorizeStoreFailed(i)
  \/ \E i \in 1..Len(auths) : \E r \in ParOutcomes : AuthorizePushed(i, r)

NextAuthorize ==
  \/ \E input \in Handles \cup AuthServerUrls \cup InvalidHandles : authorizeCall(input)
  \/ AuthorizeStep
  \/ CbTick

\* a new client over an empty storage
InitAuthorize ==
  /\ Init
  /\ \A k \in SessKeys : storage[k] = None
  /\ sess[1].exp = 0

SpecAuthorize == InitAuthorize /\ [][NextAuthorize]_vars

\* C38 as stated: when authorize rejects, whatever the reason, no pkce:<state>
\* record created by that call remains in the storage.
C38_Original ==
  \A i \in 1..Len(auths) :
    auths[i].out = "err" => ~(auths[i].stored /\ auths[i].left)

----------------------------------------------------------------------------
(* The authorization specification: authorize and callback on a client    *)
(* that holds no stored session                                           *)

InitCallback ==
  /\ Init
  /\ \A k \in SessKeys : storage[k] = None
  /\ sess[1].exp = 0

\* the steps of the callback tasks
CbStep ==
  \/ \E i \in 1..Len(cbs) : CbIssDeleted(i)
  \/ \E i \in 1..Len(cbs) : CbKeyGenerated(i)
  \/ \E i \in 1..Len(cbs) : \E r \in ExchangeResults : CbExchanged(i, r)
  \/ \E i \in 1..Len(cbs) : \E ok \in BOOLEAN : CbResolved(i, ok)
  \/ \E i \in 1..Len(cbs) : \E ok \in BOOLEAN : CbVerified(i, ok)
  \/ \E i \in 1..Len(cbs) : CbFinished(i)
  \/ \E i \in 1..Len(cbs) : CbCleaned(i)

NextCallback ==
  \/ \E input \in Handles \cup AuthServerUrls : \E st \in States : authorize(input, st)
  \/ \E p \in Params : callback(p)
  \/ CbStep
  \/ CbTick

SpecCallback == InitCallback /\ [][NextCallback]_vars

----------------------------------------------------------------------------
(* Claims about callback *)

CbTasks == 1..Len(cbs)

\* a record of the task's state was alive when callback was called: written
\* by authorize, not deleted since, and not more than 600 seconds old
CbLive(c) == c.stored # None /\ c.calledAt - c.stored[1].setAt <= 600 * 1000

\* the parameters pass the checks that precede the state lookup
CbReachesLookup(c) == c.params.code /\ ~c.params.response /\ ~c.params.error

\* the params carry an iss that is not the issuer of the live record
CbIssDiffers(c) ==
  /\ CbLive(c)
  /\ c.params.iss # ""
  /\ c.params.iss # c.stored[1].value.issuer

\* the issuer the callback took from the record, and the issuer of the
\* authorization server of the PDS of the token's DID
StoredIssuer(c) == c.rec[1].issuer
IssuerOfSub(c) == DiscoverIssuer(PdsOf(c.sub))

C5_Original ==
  \A i \in CbTasks :
    cbs[i].out = "ok" => cbs[i].session[1].did = cbs[i].sub

\* C6 as stated: of the callbacks carrying the same state (here: a code, no
\* foreign iss, and the same issued record in storage when they are called), at
\* most one proceeds to the token exchange, and every other one fails with
\* InvalidStateError.
C6_Original ==
  \A i, j \in CbTasks :
    (i # j /\ cbs[i].params.state = cbs[j].params.state
       /\ CbReachesLookup(cbs[i]) /\ CbReachesLookup(cbs[j])
       /\ ~CbIssDiffers(cbs[i]) /\ ~CbIssDiffers(cbs[j])
       /\ cbs[i].stored # None /\ cbs[i].stored = cbs[j].stored) =>
      /\ ~(cbs[i].tokreqs > 0 /\ cbs[j].tokreqs > 0)
      /\ (cbs[i].tokreqs > 0 /\ cbs[j].pc = "done") =>
           cbs[j].err.cls = "InvalidStateError"

\* C7 as stated: on every exit path of callback(params) no record remains
\* under pkce:<state> for the state carried in params.
C7_Original ==
  \A i \in CbTasks : cbs[i].pc = "done" => ~cbs[i].left

\* C8 as stated: whenever no live PKCE record exists for its state, callback
\* fails with InvalidStateError, sends no token request and creates no session.
C8_Original ==
  \A i \in CbTasks :
    ~CbLive(cbs[i]) =>
      /\ cbs[i].pc = "done" /\ cbs[i].err.cls = "InvalidStateError"
      /\ cbs[i].tokreqs = 0 /\ cbs[i].session = None

\* C8 amended: when the parameters carry a code and neither a response nor an
\* error, and no live PKCE record exists for the state (never issued, already
\* deleted by a callback, or written more than 600 seconds earlier), callback
\* fails with InvalidStateError without generating a DPoP key, sending a token
\* request, creating a session or emitting onSessionUpdated.
C8_InvalidStateWithoutLiveRecord ==
  \A i \in CbTasks :
    (CbReachesLookup(cbs[i]) /\ ~CbLive(cbs[i])) =>
      /\ cbs[i].pc = "done" /\ cbs[i].out = "err"
      /\ cbs[i].err.cls = "InvalidStateError"
      /\ ~cbs[i].dpop /\ cbs[i].tokreqs = 0
      /\ cbs[i].session = None /\ ~cbs[i].emitted

\* a callback with a code was called more than 600 seconds after authorize
\* wrote the record of its state, and failed with InvalidStateError
C8_Witness ==
  \E i \in CbTasks :
    /\ CbReachesLookup(cbs[i])
    /\ cbs[i].stored # None
    /\ cbs[i].calledAt - cbs[i].stored[1].setAt > 600 * 1000
    /\ cbs[i].err.cls = "InvalidStateError"

CbInvalidResponse(c) == c.err.cls = "TokenValidationError"

\* C25: callback creates no session from an invalid token response: when the
\* success body of the token endpoint fails validateTokenResponse, callback
\* rejects with TokenValidationError, returns no session, emits no
\* onSessionUpdated, and the step in which it rejects deletes the PKCE record.
C25_NoSessionFromInvalidTokens ==
  [][\A i \in CbTasks :
       CbInvalidResponse(cbs'[i]) =>
         /\ cbs'[i].out # "ok" /\ cbs'[i].session = None /\ ~cbs'[i].emitted
         /\ cbs'[i].pc \in {"cleanup", "done"}
         /\ (cbs[i].pc = "cleanup" /\ cbs'[i].pc = "done") =>
              /\ cbs'[i].out = "err"
              /\ pkce'[cbs[i].params.state] = None]_vars

\* a callback with a live record rejected with TokenValidationError after its
\* token request, and the record is gone
C25_Witness ==
  \E i \in CbTasks :
    /\ CbInvalidResponse(cbs[i]) /\ cbs[i].pc = "done" /\ cbs[i].out = "err"
    /\ CbLive(cbs[i]) /\ cbs[i].tokreqs = 1
    /\ pkce[cbs[i].params.state] = None

----------------------------------------------------------------------------
(* The DPoP request specification *)

Grants == {"authorization_code", "refresh_token"}

NextHttp ==
  \/ \E g \in Grants : fetchWithDPoPRetry(g)
  \/ \E r \in Responses : TokenEndpointAnswered(r)
  \/ TokenEndpointUnreachable
  \/ \E cb \in BOOLEAN : \E m \in Methods : \E u \in Urls : \E b \in Bodies :
       makeRequest(cb, m, u, b)
  \/ \E r \in Responses : ResourceAnswered(r)
  \/ ResourceUnreachable

\* no session is stored: the helpers use neither the storage nor the client
InitHttp ==
  /\ Init
  /\ \A k \in SessKeys : storage[k] = None
  /\ sess[1].exp = 0

SpecHttp == InitHttp /\ [][NextHttp]_vars

----------------------------------------------------------------------------
(* Claims about DPoP requests *)

\* C19: a token-endpoint request (code exchange or refresh) sends at most two
\* HTTP requests; the second is sent if and only if the first response has
\* status 400 and carries a DPoP-Nonce header, its proof includes that nonce,
\* and its response is returned to the caller with no further retry whatever
\* its status.
C19_AtMostOneNonceRetry ==
  req.fn = "fetchWithDPoPRetry" =>
    /\ Len(req.sent) \in {1, 2}
    /\ Len(req.got) <= Len(req.sent)
    /\ req.sent[1].nonce = None
    /\ Len(req.sent) = 2 <=>
         (Len(req.got) >= 1 /\ req.got[1].status = 400 /\ req.got[1].nonce # None)
    /\ Len(req.sent) = 2 => req.sent[2].nonce = req.got[1].nonce
    /\ req.out = "ok" => req.ret = Some(req.got[Len(req.got)])
    /\ Len(req.got) = 2 => req.pc = "done"
    /\ req.pc = "done" /\ req.out = "ok" => Len(req.got) = Len(req.sent)

\* the retry was answered with 400 and another nonce, and that answer was
\* returned
C19_Witness ==
  /\ req.fn = "fetchWithDPoPRetry" /\ req.pc = "done" /\ req.out = "ok"
  /\ Len(req.sent) = 2
  /\ req.got[2].status = 400 /\ req.got[2].nonce \notin {None, req.got[1].nonce}
  /\ req.ret = Some(req.got[2])

\* C20 as stated: when the response of Session.makeRequest is still 401 after
\* the nonce retry and a refresh callback is attached, the callback is invoked
\* once and the request is retried one final time with the refreshed access
\* token; a response with a non-401 status is returned without any retry and
\* without invoking the callback.
C20_Original ==
  (req.fn = "makeRequest" /\ req.pc = "done" /\ req.out = "ok") =>
    /\ (req.hasCb /\ Len(req.got) >= 2 /\ req.got[2].status = 401) =>
         /\ req.refreshes = 1
         /\ Len(req.sent) = 3
         /\ req.sent[3].token = "refreshed"
    /\ req.got[1].status # 401 =>
         /\ req.refreshes = 0
         /\ Len(req.sent) = 1
         /\ req.ret = Some(req.got[1])

\* the nonce retry of makeDPoPRequest was sent
ChallengeRetried == req.fn = "makeRequest" /\ Len(req.sent) = 2

\* C21: a DPoP-protected resource request is retried exactly once, with a
\* fresh proof carrying the returned nonce and the same method, URL, body and
\* access token, if and only if the first response has status 401 and a
\* DPoP-Nonce header; a 401 without the header, and every answer to the retry,
\* is returned without a further request.
C21_RetriedOnceOnNonceChallenge ==
  req.fn = "makeRequest" =>
    /\ Len(req.sent) \in {1, 2}
    /\ Len(req.got) <= Len(req.sent)
    /\ req.sent[1].nonce = None
    /\ ChallengeRetried <=>
         (Len(req.got) >= 1 /\ req.got[1].status = 401 /\ req.got[1].nonce # None)
    /\ ChallengeRetried =>
         /\ req.sent[2].nonce = req.got[1].nonce
         /\ req.sent[2].jti # req.sent[1].jti
         /\ \A f \in {"method", "url", "body", "token", "htm"} :
              req.sent[2][f] = req.sent[1][f]
    /\ (req.out = "pending" /\ ~ChallengeRetried) => req.got = << >>
    /\ req.out = "ok" => req.ret = Some(req.got[Len(req.got)])
    /\ Len(req.got) = 2 => req.pc = "done"

\* a POST with a body was challenged and retried, and a 401 without the header
\* answered the retry and was returned
C21_Witness ==
  /\ ChallengeRetried /\ req.pc = "done" /\ req.out = "ok"
  /\ req.method = "POST" /\ req.body # None /\ req.url.query # ""
  /\ req.got[2] = [status |-> 401, nonce |-> None]
  /\ req.ret = Some(req.got[2])

\* a request is on its way
InTransit == req.pc \in {"first", "second"}

\* C22: the nonce a DPoP proof carries for a request to origin O is the
\* DPoP-Nonce value of the most recent response from O that had the header,
\* and no nonce if no response from O ever had it.
C22_Original ==
  InTransit => req.sent[Len(req.sent)].nonce = observed[req.url.origin]

\* the input URL with its query string and fragment removed
StripQueryFragment(url) == [url EXCEPT !.query = "", !.frag = ""]

\* C23: for every DPoP proof, the payload htu equals the input URL with its
\* query string and fragment removed, for every method and URL.
C23_Original ==
  \A i \in 1 .. Len(req.sent) :
    req.sent[i].htu = StripQueryFragment(req.sent[i].url)

----------------------------------------------------------------------------
(* The validation specification: one call of validateAuthServerMetadata or  *)
(* of validateTokenResponse on a value a server can send                     *)

InitValidation ==
  /\ InitState /\ cfgLock = FALSE /\ sn = NoSession
  /\ \A k \in SessKeys : storage[k] = None
  /\ sess[1].exp = 0
  /\ \/ \E raw \in RawMetadata : \E u \in ExpectedIssuers :
          pure = PureCall("validateAuthServerMetadata", raw, u)
     \/ \E raw \in RawTokens : pure = PureCall("validateTokenResponse", raw, << >>)

NextValidation ==
  \/ MetadataValidated
  \/ TokenResponseValidated

SpecValidation == InitValidation /\ [][NextValidation]_vars

----------------------------------------------------------------------------
(* Claims about validation *)

\* the value is a string that parses as a URL with the scheme https
IsHttpsUrl(v) == IsString(v) /\ ParsesAsUrl(v.s) /\ UrlProtocol(v.s) = "https:"

\* the optional endpoints of the metadata
OptionalEndpoints == {"pushed_authorization_request_endpoint", "revocation_endpoint"}

\* what the claim requires of metadata fetched from u
MetadataAcceptable(m, u) ==
  /\ IsString(m.issuer) /\ ParsesAsUrl(m.issuer.s)
  /\ UrlOrigin(m.issuer.s) = UrlOrigin(u)
  /\ IsHttpsUrl(m.authorization_endpoint)
  /\ IsHttpsUrl(m.token_endpoint)
  /\ \A f \in OptionalEndpoints : Truthy(m[f]) => IsHttpsUrl(m[f])
  /\ m.dpop_signing_alg_values_supported # Undefined =>
       /\ m.dpop_signing_alg_values_supported.t = "array"
       /\ "ES256" \in m.dpop_signing_alg_values_supported.a

\* C26: every metadata value m returned by validateAuthServerMetadata(raw,
\* fetchedFrom) has the fields of raw, origin(m.issuer) = origin(fetchedFrom),
\* https URLs as authorization_endpoint and token_endpoint, an https URL for
\* every optional endpoint present (set to a non-empty value), and, if present,
\* a list containing ES256 as dpop_signing_alg_values_supported; every raw
\* input violating one of these is rejected.
C26_ValidatedMetadata ==
  (pure.fn = "validateAuthServerMetadata" /\ pure.out # Pending) =>
    /\ pure.out.ok =>
         /\ pure.out.value = pure.raw.fields
         /\ MetadataAcceptable(pure.out.value, pure.arg)
    /\ (pure.raw.t # "object" \/ ~MetadataAcceptable(pure.raw.fields, pure.arg)) =>
         (~pure.out.ok /\ pure.out.cls \in {"MetadataValidationError", "TypeError"})

\* metadata with an issuer path, both optional endpoints and ES256 among the
\* algorithms was accepted
C26_Witness ==
  /\ pure.fn = "validateAuthServerMetadata" /\ pure.out.ok
  /\ pure.out.value.issuer = Str(<<"https:", "//bsky.social", "/some/path">>)
  /\ \A f \in OptionalEndpoints : pure.out.value[f] = Str(HttpsUrl)
  /\ pure.out.value.dpop_signing_alg_values_supported = Arr({"ES256", "RS256"})

\* what the claim requires of a token response
TokenResponseAcceptable(r) ==
  /\ IsString(r.access_token) /\ r.access_token.s # << >>
  /\ IsString(r.token_type) /\ r.token_type.s \in {<<"DPoP">>, <<"dpop">>, <<"DPOP">>}
  /\ IsString(r.scope) /\ r.scope.s # << >> /\ Includes(r.scope.s, "atproto")
  /\ IsString(r.sub) /\ r.sub.s # << >> /\ StartsWith(r.sub.s, "did:")
  /\ r.expires_in.t = "number" /\ r.expires_in.n > 0
  /\ r.refresh_token = Undefined \/ IsString(r.refresh_token)

\* C27: validateTokenResponse returns a value (the fields of the response)
\* exactly when access_token is a non-empty string, token_type equals "DPoP"
\* case-insensitively, scope is non-empty and contains "atproto", sub is a
\* non-empty string starting with "did:", expires_in is a positive number and
\* refresh_token is absent or a string; every other input raises
\* TokenValidationError.
C27_ValidatedTokenResponse ==
  (pure.fn = "validateTokenResponse" /\ pure.out # Pending) =>
    IF pure.raw.t = "object" /\ TokenResponseAcceptable(pure.raw.fields)
    THEN pure.out = Returned(pure.raw.fields)
    ELSE ~pure.out.ok /\ pure.out.cls = "TokenValidationError"

\* a response with token_type in another case and no refresh_token was accepted
C27_Witness ==
  /\ pure.fn = "validateTokenResponse" /\ pure.out.ok
  /\ pure.out.value.token_type = Str(<<"DPOP">>)
  /\ pure.out.value.refresh_token = Undefined
  /\ pure.out.value.scope = Str(<<"atproto", " ", "transition:generic">>)

\* C39 as stated: for every input, including metadata whose issuer or endpoint
\* strings are not parseable URLs, validateAuthServerMetadata either returns
\* normally or raises MetadataValidationError; no other error kind escapes.
C39_Original ==
  (pure.fn = "validateAuthServerMetadata" /\ pure.out # Pending) =>
    (pure.out.ok \/ pure.out.cls = "MetadataValidationError")

----------------------------------------------------------------------------
(* The session specification: one Session, the clock, its getters,          *)
(* updateTokens and the round trip through toJSON and fromJSON              *)

InitSession ==
  /\ InitState /\ cfgLock = FALSE /\ pure = NoPure
  /\ \A k \in SessKeys : storage[k] = None
  /\ sess[1].exp = 0
  /\ \E exp \in ExpiryChoices : sn = Constructed(FullSessionData(exp))

NextSession ==
  \/ SessionTick
  \/ ExpiryRead
  \/ \E tok \in TokenUpdates(sn.updates + 1) : updateTokens(tok)
  \/ RoundTrip

SpecSession == InitSession /\ [][NextSession]_vars

----------------------------------------------------------------------------
(* Claims about Session *)

\* C28: for every session and every time now, isExpired holds exactly when
\* now + 300000 >= tokenExpiresAt (the boundary counts as expired), and
\* timeUntilExpiry = max(0, tokenExpiresAt - now), so it is never negative.
C28_ExpiryGetters ==
  sn.read # None =>
    LET r == sn.read[1] IN
    /\ r.isExpired <=> (r.at + 300000 >= r.exp)
    /\ r.exp - r.at >= 0 => r.timeUntilExpiry = r.exp - r.at
    /\ r.exp - r.at < 0 => r.timeUntilExpiry = 0
    /\ r.timeUntilExpiry >= 0

\* the getters were read on the boundary, after the clock moved: the session
\* counts as expired with 300000 ms left
C28_Witness ==
  /\ sn.read # None
  /\ sn.read[1].at > 0 /\ sn.read[1].at + 300000 = sn.read[1].exp
  /\ sn.read[1].isExpired /\ sn.read[1].timeUntilExpiry = 300000

\* C29: updateTokens({accessToken, refreshToken?, expiresIn}) sets accessToken
\* to the new value and tokenExpiresAt to now + expiresIn*1000, replaces
\* refreshToken only when a new one is supplied, and leaves did, handle, pdsUrl
\* and both DPoP key JWKs unchanged.
C29_UpdateTokensFrame ==
  sn.tok # None =>
    LET tok == sn.tok[1]
        before == sn.prev[1]
    IN /\ sn.data.at = tok.at
       /\ sn.data.exp = sn.tokAt + tok.expiresIn * 1000
       /\ sn.data.rt = IF tok.rt # 0 THEN tok.rt ELSE before.rt
       /\ \A f \in {"did", "handle", "pdsUrl", "key", "pub"} : sn.data[f] = before[f]

\* a second update without a refresh token, after the clock moved, kept the
\* refresh token of the first update
C29_Witness ==
  /\ sn.updates = 2 /\ sn.tokAt > 0
  /\ sn.tok[1].rt = 0 /\ sn.data.rt = 21 /\ sn.data.at = 12
  /\ sn.data.exp = sn.tokAt + 900000

\* C30: for every session s, Session.fromJSON(s.toJSON()) equals s on every
\* field of the session record (did, handle, pdsUrl, accessToken, refreshToken,
\* both DPoP JWKs, tokenExpiresAt), including after any sequence of
\* updateTokens calls on s.
C30_RoundTrip ==
  (sn.copy # None /\ sn.copyOf = sn.updates) =>
    /\ DOMAIN sn.copy[1] = DOMAIN sn.data
    /\ \A f \in {"did", "handle", "pdsUrl", "at", "rt", "key", "pub", "exp"} :
         sn.copy[1][f] = sn.data[f]

\* the round trip was made after two updateTokens calls that changed both
\* tokens and the expiry
C30_Witness ==
  /\ sn.copy # None /\ sn.copyOf = 2 /\ sn.updates = 2
  /\ sn.copy[1].at = 12 /\ sn.copy[1].rt = 22 /\ sn.copy[1].exp > 0

----------------------------------------------------------------------------
(* The storage specification: one MemoryStorage, two keys, the clock *)

InitMemory ==
  /\ Init
  /\ \A k \in SessKeys : storage[k] = None
  /\ sess[1].exp = 0

NextMemory ==
  \/ \E k \in MemKeys : MemGet(k)
  \/ \E k \in MemKeys : \E v \in MemValues : \E ttl \in TtlChoices : MemSet(k, v, ttl)
  \/ \E k \in MemKeys : MemDelete(k)
  \/ MemTick

SpecMemory == InitMemory /\ [][NextMemory]_vars

----------------------------------------------------------------------------
(* Claims about MemoryStorage *)

\* what get must return at time t for a key whose latest set is l, when every
\* ttl given counts
ExpectedOfAnyTtl(l, t) ==
  IF l = None THEN None
  ELSE IF l[1].ttl # None /\ t > l[1].at + l[1].ttl[1] * 1000 THEN None
       ELSE Some(l[1].value)

\* the same when a ttl of 0 counts as no ttl
ExpectedOf(l, t) ==
  IF l = None THEN None
  ELSE IF l[1].ttl \notin {None, Some(0)} /\ t > l[1].at + l[1].ttl[1] * 1000 THEN None
       ELSE Some(l[1].value)

\* C40 as stated: get(k) returns the value of the latest set(k, v, {ttl}) while
\* now <= setTime + ttl * 1000 and null afterwards; a value set without ttl
\* never expires; after delete(k) get(k) returns null until the next set; an
\* operation on one key never changes what get returns for another key.
C40_Original ==
  /\ mem.got # None => mem.got[1].ret = ExpectedOfAnyTtl(mem.got[1].last, mem.got[1].at)
  /\ mem.frame

\* C40, amended: get(k) returns the value of the latest set(k, v, {ttl}) with a
\* ttl other than 0 while now <= setTime + ttl * 1000 and null afterwards; a
\* value set without ttl or with a ttl of 0 never expires; after delete(k)
\* get(k) returns null until the next set; an operation on one key never
\* changes what get returns for another key.
C40_MemoryStorage ==
  /\ mem.got # None => mem.got[1].ret = ExpectedOf(mem.got[1].last, mem.got[1].at)
  /\ mem.frame

\* a get after the lifetime of a value set with a ttl of one second returned
\* null, while the other key holds a value
C40_Witness ==
  /\ mem.got # None
  /\ mem.got[1].last # None
  /\ mem.got[1].last[1].ttl = Some(1)
  /\ mem.got[1].at > mem.got[1].last[1].at + 1000
  /\ mem.got[1].ret = None
  /\ \E k \in MemKeys \ {mem.got[1].key} : Lookup(mem.data, k, now) # None

----------------------------------------------------------------------------
(* The resolver specification: resolve(handle) calls of the three resolvers *)
(* over a network that answers or fails at every request                     *)

NextResolve ==
  \/ \E rs \in Resolvers : \E h \in ResolverHandles : resolve(rs, h)
  \/ \E r \in LookupAnswers : LookupAnswered(r)
  \/ \E r \in DidDocAnswers : DidDocAnswered(r)
  \/ \E ok \in BOOLEAN : CustomSettled(ok)

SpecResolve == InitMemory /\ [][NextResolve]_vars

----------------------------------------------------------------------------
(* Claims about the resolvers *)

\* the elements of a sequence
Range(q) == {q[i] : i \in 1..Len(q)}

\* C31: the default resolver tries, in this order and stopping at the first
\* success, resolveMiniDoc of Slingshot, resolveHandle of Slingshot with the
\* DID-document lookup, resolveHandle of bsky.social with the DID-document
\* lookup, and /.well-known/atproto-did with the DID-document lookup; a
\* method is attempted only after every earlier one failed, and when all four
\* failed HandleResolutionError is raised.
C31_FallbackOrder ==
  rsv.resolver = "SlingshotResolver" =>
    /\ rsv.tried = SubSeq(Methods4, 1, Len(rsv.tried))
    /\ Len(rsv.tried) >= 1
    /\ IF rsv.out = "err"
       THEN /\ rsv.tried = Methods4
            /\ rsv.failed = Range(Methods4)
            /\ rsv.err = "HandleResolutionError"
       ELSE /\ rsv.failed = Range(SubSeq(rsv.tried, 1, Len(rsv.tried) - 1))
            /\ rsv.out = "ok" =>
                 rsv.ret = Some([did |-> DidOf(rsv.handle),
                                 pdsUrl |-> PdsOf(DidOf(rsv.handle))])

\* the default resolver succeeded with its fourth method
C31_Witness ==
  /\ rsv.resolver = "SlingshotResolver"
  /\ rsv.out = "ok"
  /\ rsv.tried = Methods4
  /\ rsv.failed = {"miniDoc", "slingshot", "bsky"}

\* C32 as stated: every built-in resolver either returns {did, pdsUrl} or
\* raises HandleResolutionError, whichever step fails: the handle lookup, the
\* DID-document lookup, or the transport.
C32_Original ==
  rsv.out = "err" => rsv.err = "HandleResolutionError"

====
